---- MODULE Spec2Model ----
(***************************************************************************)
(* Model of the infinite-canvas element service: the three storage tables  *)
(* (canvas_elements, text_notes, drawings) and the request handlers        *)
(* createTextNote, createDrawing, updateTextNote, updateDrawing,           *)
(* getCanvasElement, deleteCanvasElement and bulkUpdateElements.           *)
(*                                                                         *)
(* Every awaited database statement of a handler is one step of the        *)
(* request that runs it, so requests interleave between statements the way *)
(* they do on the server.  A statement outside db.transaction commits on   *)
(* its own; the statements inside db.transaction write to a private        *)
(* overlay that is applied at commit and dropped at rollback, and the rows *)
(* it has written stay locked until then.                                  *)
(*                                                                         *)
(* Numbers are integers counting units of 10^-7, so that the rounding of   *)
(* the numeric(15,6) and numeric(5,2) columns is visible.                  *)
(***************************************************************************)
EXTENDS Integers, Sequences, FiniteSets, TLC

\* ------------------------------------------------------------------ bounds
MaxIds == 2
NumProcs == 2
MaxClock == 1
MaxBatch == 2
MaxEvents == 4
MaxCalls == 2
MaxGesture == 6

\* ------------------------------------------------------------ value space
U == 10000000

Ids == 1..MaxIds
Procs == 1..NumProcs

NoRow == [type |-> "none"]
Untouched == [type |-> "untouched"]

\* round half away from zero to a multiple of m (PostgreSQL numeric rounding)
RoundTo(v, m) ==
  LET a == IF v < 0 THEN -v ELSE v
      q == (a + (m \div 2)) \div m
  IN  IF v < 0 THEN -(q * m) ELSE q * m

\* numeric(15,6): six decimal places
Numeric6(v) == RoundTo(v, 10)
\* numeric(5,2): two decimal places
Numeric2(v) == RoundTo(v, 100000)

PosA == [x |-> 1 * U, y |-> 2 * U]
PosB == [x |-> 3 * U + 5, y |-> 4 * U]
PosC == [x |-> 5 * U, y |-> 6 * U]
SizeA == [width |-> 10 * U, height |-> 5 * U]
SizeB == [width |-> 20 * U, height |-> 15 * U]
StrokesA == << [points |-> << [x |-> 0, y |-> 0], [x |-> U, y |-> U] >>,
               color |-> "#000000", width |-> 2 * U] >>
StrokesB == << [points |-> << [x |-> 0, y |-> 0], [x |-> U, y |-> 0, pressure |-> U \div 2] >>,
               color |-> "#ff0000", width |-> 3 * U] >>

\* an object without fields: {}
EmptyObject == [f \in {} |-> 0]

\* inputs of createTextNote: one with every field, one with every optional
\* field left out
TextNoteInput ==
  [position |-> PosA, size |-> SizeA, content |-> "a", font_size |-> 18 * U + 50000,
   font_color |-> "#333333", background_color |-> "#ffaaaa", z_index |-> 1]
TextNoteInputDefaults == [position |-> PosA, size |-> SizeA, content |-> ""]

DrawingInput == [position |-> PosA, size |-> SizeA, strokes |-> StrokesA, z_index |-> 1]

\* patches of updateTextNote and updateDrawing (the id is added by the call):
\* one naming every field, one naming fields with falsy values, one empty
TextNotePatch ==
  [position |-> PosB, size |-> SizeB, z_index |-> 2, content |-> "b",
   font_size |-> 20 * U, font_color |-> "#111111", background_color |-> "#ffffff"]
TextNotePatchFalsy == [z_index |-> 0, content |-> ""]

DrawingPatch == [position |-> PosB, size |-> SizeB, z_index |-> 2, strokes |-> StrokesB]
DrawingPatchFalsy == [z_index |-> 0, strokes |-> << >>]

\* one entry of a bulk update for id i: any subset of {position, z_index}
BulkEntries(i) ==
  { [id |-> i], [id |-> i, position |-> PosC], [id |-> i, z_index |-> 3],
    [id |-> i, position |-> PosC, z_index |-> 3] }

AllBulkEntries == UNION { BulkEntries(i) : i \in Ids }

\* the batches a request can carry: every list of at most MaxBatch entries
BulkInputs == UNION { [1..n -> AllBulkEntries] : n \in 0..MaxBatch }

\* the batches of one entry that gives position and z_index
SingleBulkInputs == { << [id |-> i, position |-> PosC, z_index |-> 3] >> : i \in Ids }

\* a viewport that holds PosA and neither PosB nor PosC
ViewportA == [x |-> 0, y |-> 0, width |-> 2 * U, height |-> 3 * U, zoom |-> 1 * U]

\* inputs of getCanvasElements: no viewport, or one
ViewportInputs == { EmptyObject, [viewport |-> ViewportA] }

\* what the requests of a specification draw their inputs from (ids: the
\* ids that update, get and delete requests name), and whether a request
\* starts only when no other is running
AllInputs ==
  [oneAtATime |-> TRUE,
   ids |-> Ids,
   createTextNote |-> { TextNoteInput, TextNoteInputDefaults },
   createDrawing |-> { DrawingInput },
   updateTextNote |-> { TextNotePatch, TextNotePatchFalsy, EmptyObject },
   updateDrawing |-> { DrawingPatch, DrawingPatchFalsy, EmptyObject },
   getCanvasElements |-> ViewportInputs,
   bulkUpdateElements |-> SingleBulkInputs]

\* the inputs of the interleaved and the bulk specification: one create per
\* kind, one patch per kind that changes geometry and payload together
BasicInputs ==
  [oneAtATime |-> FALSE,
   ids |-> Ids,
   createTextNote |-> { TextNoteInput },
   createDrawing |-> { DrawingInput },
   updateTextNote |-> { TextNotePatch },
   updateDrawing |-> { DrawingPatch },
   getCanvasElements |-> { EmptyObject },
   bulkUpdateElements |-> BulkInputs]

BasicInputsOneAtATime == [BasicInputs EXCEPT !.oneAtATime = TRUE]

\* the inputs of the specification of concurrent updates: two patches per
\* kind that differ in geometry and in payload, all for the first element
WriteInputs ==
  [oneAtATime |-> FALSE,
   ids |-> { 1 },
   createTextNote |-> { TextNoteInput },
   createDrawing |-> { DrawingInput },
   updateTextNote |-> { TextNotePatch, TextNotePatchFalsy },
   updateDrawing |-> { DrawingPatch, DrawingPatchFalsy },
   getCanvasElements |-> { EmptyObject },
   bulkUpdateElements |-> SingleBulkInputs]

\* the inputs of the interleaved specification with bulk updates and deletes
DeleteInputs ==
  [BasicInputs EXCEPT !.ids = { 1 },
                      !.bulkUpdateElements = { << [id |-> 1, position |-> PosC, z_index |-> 3] >> }]

\* the inputs of the specification of create, update and bulk update, one
\* request at a time
MutateInputs ==
  [AllInputs EXCEPT !.createTextNote = { TextNoteInput },
                    !.updateTextNote = { TextNotePatch, EmptyObject },
                    !.updateDrawing = { DrawingPatch, EmptyObject }]

\* a viewport with PosA on its lower and PosC on its upper corner, and one
\* that lies inside the rectangle of an element at PosA and holds no anchor
ViewportEdge == [x |-> 1 * U, y |-> 2 * U, width |-> 4 * U, height |-> 4 * U, zoom |-> 2 * U]
ViewportInside == [x |-> 2 * U, y |-> 3 * U, width |-> 1 * U, height |-> 1 * U,
                   zoom |-> U \div 2]

\* the inputs of the specification of lists: every viewport, one create and
\* one patch per kind
ListInputs ==
  [AllInputs EXCEPT !.createTextNote = { TextNoteInput },
                    !.updateTextNote = { TextNotePatch },
                    !.updateDrawing = { DrawingPatch },
                    !.getCanvasElements = { EmptyObject, [viewport |-> ViewportA],
                                            [viewport |-> ViewportEdge],
                                            [viewport |-> ViewportInside] }]

Has(rec, field) == field \in DOMAIN rec

\* ------------------------------------------------------- the input schemas
\* A request arrives as an object of numbers that need not be whole or
\* positive; in such an object every number, z_index too, counts units of
\* 10^-7.  Each schema says which objects it takes, and Parse... gives the
\* object the handler is called with: defaults filled in, z_index a whole
\* number.
\* sizeSchema taking a width and a height of zero
sizeSchemaNonNegative(size) == size.width >= 0 /\ size.height >= 0

sizeSchema(size) == size.width > 0 /\ size.height > 0

strokePointSchema(point) ==
  Has(point, "pressure") => (point.pressure >= 0 /\ point.pressure <= 1 * U)

strokeSchema(stroke) ==
  /\ \A n \in 1..Len(stroke.points) : strokePointSchema(stroke.points[n])
  /\ Has(stroke, "width") => stroke.width > 0

\* z.number().int()
IsInt(v) == v % U = 0

createTextNoteInputSchema(input) ==
  /\ sizeSchema(input.size)
  /\ Has(input, "font_size") => input.font_size > 0
  /\ Has(input, "z_index") => IsInt(input.z_index)

createDrawingInputSchema(input) ==
  /\ sizeSchema(input.size)
  /\ \A n \in 1..Len(input.strokes) : strokeSchema(input.strokes[n])
  /\ Has(input, "z_index") => IsInt(input.z_index)

updateTextNoteInputSchema(input) ==
  /\ Has(input, "size") => sizeSchema(input.size)
  /\ Has(input, "font_size") => input.font_size > 0
  /\ Has(input, "z_index") => IsInt(input.z_index)

updateDrawingInputSchema(input) ==
  /\ Has(input, "size") => sizeSchema(input.size)
  /\ Has(input, "strokes") =>
       \A n \in 1..Len(input.strokes) : strokeSchema(input.strokes[n])
  /\ Has(input, "z_index") => IsInt(input.z_index)

\* the fields of defaults that input does not have, added to it
WithDefaults(input, defaults) ==
  [f \in DOMAIN input \cup DOMAIN defaults |->
     IF f \in DOMAIN input THEN input[f] ELSE defaults[f]]

\* z_index as the whole number it is
WholeZIndex(input) ==
  IF Has(input, "z_index") THEN [input EXCEPT !.z_index = input.z_index \div U]
  ELSE input

ParseStrokes(strokes) ==
  [n \in 1..Len(strokes) |->
     WithDefaults(strokes[n], [color |-> "#000000", width |-> 2 * U])]

ParseCreateTextNote(input) ==
  WholeZIndex(WithDefaults(input, [font_size |-> 16 * U, font_color |-> "#000000",
                                   background_color |-> "#ffff88", z_index |-> 0]))

ParseCreateDrawing(input) ==
  WholeZIndex(WithDefaults([input EXCEPT !.strokes = ParseStrokes(input.strokes)],
                           [z_index |-> 0]))

ParseUpdateTextNote(input) == WholeZIndex(input)

ParseUpdateDrawing(input) ==
  WholeZIndex(IF Has(input, "strokes")
              THEN [input EXCEPT !.strokes = ParseStrokes(input.strokes)]
              ELSE input)

\* requests as they arrive: for each procedure some its schema takes and
\* some it refuses
SizeZero == [width |-> 0, height |-> 5 * U]
SizeNegative == [width |-> 10 * U, height |-> -1 * U]
StrokesNoWidth == << [points |-> << [x |-> 0, y |-> 0, pressure |-> 0],
                                    [x |-> U, y |-> U, pressure |-> 1 * U] >>] >>
StrokesZeroWidth == << [points |-> << [x |-> 0, y |-> 0] >>, color |-> "#000000",
                        width |-> 0] >>
StrokesPressureHigh == << [points |-> << [x |-> 0, y |-> 0, pressure |-> 1 * U + 1] >>,
                           color |-> "#000000", width |-> 2 * U] >>
StrokesPressureLow == << [points |-> << [x |-> 0, y |-> 0, pressure |-> -1] >>,
                          color |-> "#000000", width |-> 2 * U] >>

RawInputs ==
  [createTextNote |->
     { [position |-> PosA, size |-> SizeA, content |-> "a", font_size |-> 18 * U,
        z_index |-> 1 * U],
       [position |-> PosA, size |-> SizeA, content |-> ""],
       [position |-> PosA, size |-> SizeZero, content |-> "a"],
       [position |-> PosA, size |-> SizeNegative, content |-> "a"],
       [position |-> PosA, size |-> SizeA, content |-> "a", font_size |-> 0],
       [position |-> PosA, size |-> SizeA, content |-> "a", z_index |-> U + U \div 2] },
   createDrawing |->
     { [position |-> PosA, size |-> SizeA, strokes |-> StrokesNoWidth],
       [position |-> PosA, size |-> SizeZero, strokes |-> StrokesA],
       [position |-> PosA, size |-> SizeA, strokes |-> StrokesZeroWidth],
       [position |-> PosA, size |-> SizeA, strokes |-> StrokesPressureHigh],
       [position |-> PosA, size |-> SizeA, strokes |-> StrokesPressureLow],
       [position |-> PosA, size |-> SizeA, strokes |-> StrokesA,
        z_index |-> U \div 2] },
   updateTextNote |->
     { [size |-> SizeB, content |-> "b", font_size |-> 20 * U, z_index |-> 2 * U],
       [size |-> SizeNegative],
       [content |-> "b", font_size |-> -1 * U],
       [content |-> "b", z_index |-> 2 * U + 1] },
   updateDrawing |->
     { [position |-> PosB, strokes |-> StrokesB, z_index |-> 2 * U],
       [size |-> SizeZero],
       [strokes |-> StrokesZeroWidth],
       [strokes |-> StrokesPressureHigh],
       [z_index |-> U \div 4] }]

\* the inputs of the specification of validation: what the handlers are
\* called with are the parsed forms of the requests the schemas take
ValidateInputs ==
  [oneAtATime |-> TRUE,
   ids |-> Ids,
   createTextNote |-> { ParseCreateTextNote(input) :
                          input \in { r \in RawInputs.createTextNote :
                                        createTextNoteInputSchema(r) } },
   createDrawing |-> { ParseCreateDrawing(input) :
                         input \in { r \in RawInputs.createDrawing :
                                       createDrawingInputSchema(r) } },
   updateTextNote |-> { ParseUpdateTextNote(input) :
                          input \in { r \in RawInputs.updateTextNote :
                                        updateTextNoteInputSchema(r) } },
   updateDrawing |-> { ParseUpdateDrawing(input) :
                         input \in { r \in RawInputs.updateDrawing :
                                       updateDrawingInputSchema(r) } },
   getCanvasElements |-> { EmptyObject },
   bulkUpdateElements |-> SingleBulkInputs]

\* --------------------------------------------------------------- the state
VARIABLES
  canvas,     \* canvas_elements: id -> row or NoRow
  text,       \* text_notes: id -> row or NoRow
  draw,       \* drawings: id -> row or NoRow
  nextId,     \* number of ids handed out so far by defaultRandom()
  now,        \* the clock read by defaultNow() and new Date()
  pc,         \* per request slot: the statement it is about to run
  op,         \* per request slot: the handler called and its input
  loc,        \* per request slot: the handler's local variables
  txCanvas,   \* per request slot: canvas_elements rows written in its open transaction
  txDraw,     \* per request slot: drawings rows written in its open transaction
  res,        \* per request slot: what the handler returned or threw
  snapshots,  \* history: per id, the snapshots deleteCanvasElement has returned
  App,            \* the page: elements, selectedElementId, mode, viewport
  InfiniteCanvas, \* the canvas: isPanning, panStart, isDragging, dragElement,
                  \* isSpacePressed
  DrawingTool,    \* the drawing overlay: isDrawing, currentStroke, strokeWidth
  trpc,           \* the calls of the page that have not returned yet
  events          \* the input events of the page: how many it has handled, and the last

\* the state of the server and the state of the page
serverVars == << canvas, text, draw, nextId, now, pc, op, loc, txCanvas, txDraw, res,
                 snapshots >>
clientVars == << App, InfiniteCanvas, DrawingTool, trpc, events >>

vars == << canvas, text, draw, nextId, now, pc, op, loc, txCanvas, txDraw, res, snapshots,
           App, InfiniteCanvas, DrawingTool, trpc, events >>

NoOp == [name |-> "none"]
NoLoc == [none |-> TRUE]
NoRes == [status |-> "none"]
NoTx == [i \in Ids |-> Untouched]

\* ---------------------------------------------------------------- the page
\* The page computes with floating-point numbers.  Here its numbers are
\* integers counting thousandths (of a pixel, of the zoom factor), and a
\* product or a quotient is rounded to the nearest thousandth, as the
\* floating-point product or quotient is rounded to the nearest number it
\* can represent.
Milli == 1000

\* a * b and a / b of numbers in thousandths, rounded half away from zero
Times(a, b) ==
  LET n == a * b
  IN  IF n >= 0 THEN (n + Milli \div 2) \div Milli
      ELSE -((-n + Milli \div 2) \div Milli)

Over(a, b) ==
  LET n == IF b > 0 THEN a * Milli ELSE -(a * Milli)
      d == IF b > 0 THEN b ELSE -b
  IN  IF n >= 0 THEN (n + d \div 2) \div d
      ELSE -((-n + d \div 2) \div d)

Min(a, b) == IF a < b THEN a ELSE b
Max(a, b) == IF a > b THEN a ELSE b

\* a number of the page as the server's columns count it, and back
ToServer(v) == v * (U \div Milli)
FromServer(v) == v \div (U \div Milli)

\* canvasRef.current.getBoundingClientRect(): the canvas fills the window
rect == [left |-> 0, top |-> 0]

\* the canvas point under the pointer: (clientX - rect.left - viewport.x) / zoom
toCanvas(e, vp) ==
  [x |-> Over(e.clientX - rect.left - vp.x, vp.zoom),
   y |-> Over(e.clientY - rect.top - vp.y, vp.zoom)]

toScreenOffsetFirst(point, vp) ==
  [x |-> Times(point.x + vp.x, vp.zoom), y |-> Times(point.y + vp.y, vp.zoom)]

\* where a canvas point is painted: translate(viewport.x, viewport.y)
\* scale(viewport.zoom), with the origin at 0 0
toScreen(point, vp) ==
  [x |-> Times(point.x, vp.zoom) + vp.x, y |-> Times(point.y, vp.zoom) + vp.y]

null == [null |-> TRUE]

\* null where an id may stand: the ids of the elements are never 0
nullId == 0

\* the state of the three components when the page has mounted: the first
\* load of the elements is under way
InitialViewport ==
  [x |-> 0, y |-> 0, width |-> 1920 * Milli, height |-> 1080 * Milli, zoom |-> 1 * Milli]

NoPress == [button |-> -1, mode |-> "select", began |-> {}]
NoAsk == [id |-> nullId]

PageInit(most) ==
  /\ App = [elements |-> << >>, selectedElementId |-> nullId, mode |-> "select",
            viewport |-> InitialViewport]
  /\ InfiniteCanvas = [isPanning |-> FALSE, panStart |-> [x |-> 0, y |-> 0],
                       isDragging |-> FALSE, dragElement |-> null,
                       isSpacePressed |-> FALSE]
  /\ DrawingTool = [isDrawing |-> FALSE, currentStroke |-> << >>, strokeWidth |-> 2 * Milli]
  /\ trpc = << [name |-> "getCanvasElements", input |-> InitialViewport] >>
  /\ events = [handled |-> 0, last |-> "none", most |-> most, press |-> NoPress,
              asked |-> NoAsk]

ClientInit == PageInit(MaxEvents)

Init ==
  /\ canvas = [i \in Ids |-> NoRow]
  /\ text = [i \in Ids |-> NoRow]
  /\ draw = [i \in Ids |-> NoRow]
  /\ nextId = 0
  /\ now = 0
  /\ pc = [p \in Procs |-> "idle"]
  /\ op = [p \in Procs |-> NoOp]
  /\ loc = [p \in Procs |-> NoLoc]
  /\ txCanvas = [p \in Procs |-> NoTx]
  /\ txDraw = [p \in Procs |-> NoTx]
  /\ res = [p \in Procs |-> NoRes]
  /\ snapshots = [i \in Ids |-> 0]
  /\ ClientInit

\* the clock advances
Tick ==
  /\ now < MaxClock
  /\ \A q \in Procs : pc[q] # "done"
  /\ now' = now + 1
  /\ UNCHANGED << canvas, text, draw, nextId, pc, op, loc, txCanvas, txDraw, res, snapshots,
               clientVars >>

\* ------------------------------------------------- rows, elements, results
\* the row a create handler inserts into canvas_elements; created_at and
\* updated_at both take defaultNow()
NewCanvasRow(type, input, z) ==
  [type |-> type,
   position_x |-> Numeric6(input.position.x),
   position_y |-> Numeric6(input.position.y),
   width |-> Numeric6(input.size.width),
   height |-> Numeric6(input.size.height),
   z_index |-> z,
   created_at |-> now,
   updated_at |-> now]

\* the shared part of an element as the handlers build it from a canvas row
BaseElement(id, row) ==
  [id |-> id,
   type |-> row.type,
   position |-> [x |-> row.position_x, y |-> row.position_y],
   size |-> [width |-> row.width, height |-> row.height],
   z_index |-> row.z_index,
   created_at |-> row.created_at,
   updated_at |-> row.updated_at]

TextData(trow) ==
  [content |-> trow.content, font_size |-> trow.font_size,
   font_color |-> trow.font_color, background_color |-> trow.background_color]

DrawingData(drow) == [strokes |-> drow.strokes]

TextNoteElement(id, row, trow) == BaseElement(id, row) @@ TextData(trow)
DrawingElement(id, row, drow) == BaseElement(id, row) @@ DrawingData(drow)

Ok(value) == [status |-> "ok", value |-> value]
Err(name, msg, id) == [status |-> "error", name |-> name, msg |-> msg, id |-> id]

\* a finished request hands its result back before the server runs another
\* statement (handing back touches nothing but the request's own slot)
NoneDone == \A q \in Procs : pc[q] # "done"

\* request slot p is about to run the statement named
At(p, statement) == pc[p] = statement /\ NoneDone

\* a request can start in slot p
Starts(p, inputs) ==
  /\ At(p, "idle")
  /\ inputs.oneAtATime => \A q \in Procs \ {p} : pc[q] = "idle"

\* a request ends: its result is recorded and any open transaction is gone
Finish(p, r) ==
  /\ pc' = [pc EXCEPT ![p] = "done"]
  /\ res' = [res EXCEPT ![p] = r]

\* the caller takes the result; the slot is free for the next request
Return(p) ==
  /\ pc[p] = "done"
  /\ pc' = [pc EXCEPT ![p] = "idle"]
  /\ op' = [op EXCEPT ![p] = NoOp]
  /\ loc' = [loc EXCEPT ![p] = NoLoc]
  /\ res' = [res EXCEPT ![p] = NoRes]
  /\ UNCHANGED << canvas, text, draw, nextId, now, txCanvas, txDraw, snapshots,
               clientVars >>

\* a row of canvas_elements written by another request's open transaction
\* is locked: a statement that writes it waits
Locked(p, id) == \E q \in Procs \ {p} : txCanvas[q][id] # Untouched

\* what a statement inside request p's transaction reads: its own writes
\* over the committed rows
ViewCanvas(p, id) == IF txCanvas[p][id] # Untouched THEN txCanvas[p][id] ELSE canvas[id]
ViewDraw(p, id) == IF txDraw[p][id] # Untouched THEN txDraw[p][id] ELSE draw[id]

\* commit of request p's transaction
CommittedCanvas(p) ==
  [i \in Ids |-> IF txCanvas[p][i] # Untouched THEN txCanvas[p][i] ELSE canvas[i]]
CommittedDraw(p) ==
  [i \in Ids |-> IF txDraw[p][i] # Untouched THEN txDraw[p][i] ELSE draw[i]]

\* the statements that write; each can fail with a storage error
WriteStatements ==
  { "createTextNote_insertCanvas", "createTextNote_insertText",
    "createDrawing_insertCanvas", "createDrawing_insertDrawing",
    "updateTextNote_updateCanvas", "updateTextNote_updateText",
    "updateDrawing_updateCanvas", "updateDrawing_updateDrawing",
    "deleteCanvasElement_delete", "bulkUpdateElements_update" }

\* StorageFailure with the rollback lost: what the transaction wrote before
\* the failing statement is committed
StorageFailureKeepsWrites(p) ==
  /\ pc[p] \in WriteStatements
  /\ NoneDone
  /\ Finish(p, [status |-> "error", name |-> "StorageError", msg |-> "storage",
                at |-> pc[p]])
  /\ canvas' = CommittedCanvas(p)
  /\ draw' = CommittedDraw(p)
  /\ txCanvas' = [txCanvas EXCEPT ![p] = NoTx]
  /\ txDraw' = [txDraw EXCEPT ![p] = NoTx]
  /\ UNCHANGED << text, nextId, now, op, loc, snapshots, clientVars >>

\* a write statement throws: the handler rethrows, and db.transaction
\* rolls back whatever the request wrote inside it
StorageFailure(p) ==
  /\ pc[p] \in WriteStatements
  /\ NoneDone
  /\ Finish(p, [status |-> "error", name |-> "StorageError", msg |-> "storage",
                at |-> pc[p]])
  /\ txCanvas' = [txCanvas EXCEPT ![p] = NoTx]
  /\ txDraw' = [txDraw EXCEPT ![p] = NoTx]
  /\ UNCHANGED << canvas, text, draw, nextId, now, op, loc, snapshots, clientVars >>

\* requests that have yet to run their insert into canvas_elements (ids are
\* only handed out up to MaxIds)
PendingInserts ==
  Cardinality({ q \in Procs : pc[q] \in { "createTextNote_insertCanvas",
                                          "createDrawing_insertCanvas" } })

\* ------------------------------------------------- requests a schema refuses
\* the procedure parses its input with the schema before it calls the
\* handler: a request the schema refuses ends there
BadRequest == Err("TRPCError", "BAD_REQUEST", 0)

RefuseCreateTextNote(p, inputs) ==
  /\ Starts(p, inputs)
  /\ \E input \in RawInputs.createTextNote :
       /\ ~createTextNoteInputSchema(input)
       /\ op' = [op EXCEPT ![p] = [name |-> "createTextNote", input |-> input]]
  /\ Finish(p, BadRequest)
  /\ UNCHANGED << canvas, text, draw, nextId, now, loc, txCanvas, txDraw, snapshots,
               clientVars >>

RefuseCreateDrawing(p, inputs) ==
  /\ Starts(p, inputs)
  /\ \E input \in RawInputs.createDrawing :
       /\ ~createDrawingInputSchema(input)
       /\ op' = [op EXCEPT ![p] = [name |-> "createDrawing", input |-> input]]
  /\ Finish(p, BadRequest)
  /\ UNCHANGED << canvas, text, draw, nextId, now, loc, txCanvas, txDraw, snapshots,
               clientVars >>

RefuseUpdateTextNote(p, inputs) ==
  /\ Starts(p, inputs)
  /\ \E id \in inputs.ids, patch \in RawInputs.updateTextNote :
       /\ ~updateTextNoteInputSchema(patch)
       /\ op' = [op EXCEPT ![p] = [name |-> "updateTextNote",
                                   input |-> [id |-> id] @@ patch]]
  /\ Finish(p, BadRequest)
  /\ UNCHANGED << canvas, text, draw, nextId, now, loc, txCanvas, txDraw, snapshots,
               clientVars >>

RefuseUpdateDrawing(p, inputs) ==
  /\ Starts(p, inputs)
  /\ \E id \in inputs.ids, patch \in RawInputs.updateDrawing :
       /\ ~updateDrawingInputSchema(patch)
       /\ op' = [op EXCEPT ![p] = [name |-> "updateDrawing",
                                   input |-> [id |-> id] @@ patch]]
  /\ Finish(p, BadRequest)
  /\ UNCHANGED << canvas, text, draw, nextId, now, loc, txCanvas, txDraw, snapshots,
               clientVars >>

\* ---------------------------------------------------------- createTextNote
CallCreateTextNote(p, inputs) ==
  /\ Starts(p, inputs)
  /\ nextId + PendingInserts < MaxIds
  /\ \E input \in inputs.createTextNote :
       op' = [op EXCEPT ![p] = [name |-> "createTextNote", input |-> input]]
  /\ pc' = [pc EXCEPT ![p] = "createTextNote_insertCanvas"]
  /\ UNCHANGED << canvas, text, draw, nextId, now, loc, txCanvas, txDraw, res, snapshots,
               clientVars >>

createTextNote_insertCanvas(p) ==
  /\ At(p, "createTextNote_insertCanvas")
  /\ nextId < MaxIds
  /\ LET input == op[p].input
         id == nextId + 1
         row == NewCanvasRow("text_note", input,
                             IF Has(input, "z_index") THEN input.z_index ELSE 0)
     IN  /\ canvas' = [canvas EXCEPT ![id] = row]
         /\ nextId' = id
         /\ loc' = [loc EXCEPT ![p] = [id |-> id, canvasElement |-> row]]
  /\ pc' = [pc EXCEPT ![p] = "createTextNote_insertText"]
  /\ UNCHANGED << text, draw, now, op, txCanvas, txDraw, res, snapshots, clientVars >>

NewTextRow(input) ==
  [content |-> input.content,
   font_size |-> Numeric2(IF Has(input, "font_size") THEN input.font_size ELSE 16 * U),
   font_color |-> IF Has(input, "font_color") THEN input.font_color ELSE "#000000",
   background_color |-> IF Has(input, "background_color")
                        THEN input.background_color ELSE "#ffff88"]

\* createTextNote_insertText returning the font size of the input instead
\* of the one the row stores
createTextNote_insertTextEchoesInput(p) ==
  /\ At(p, "createTextNote_insertText")
  /\ LET id == loc[p].id
         trow == NewTextRow(op[p].input)
     IN  IF canvas[id] # NoRow
         THEN /\ text' = [text EXCEPT ![id] = trow]
              /\ Finish(p, Ok(TextNoteElement(id, loc[p].canvasElement,
                     [trow EXCEPT !.font_size = IF Has(op[p].input, "font_size")
                                                THEN op[p].input.font_size
                                                ELSE 16 * U])))
         ELSE /\ Finish(p, Err("Error", "violates foreign key constraint", id))
              /\ UNCHANGED text
  /\ UNCHANGED << canvas, draw, nextId, now, op, loc, txCanvas, txDraw, snapshots,
               clientVars >>

\* the insert into text_notes; its id references canvas_elements, so the
\* insert is refused when the shared row is gone
createTextNote_insertText(p) ==
  /\ At(p, "createTextNote_insertText")
  /\ LET id == loc[p].id
         trow == NewTextRow(op[p].input)
     IN  IF canvas[id] # NoRow
         THEN /\ text' = [text EXCEPT ![id] = trow]
              /\ Finish(p, Ok(TextNoteElement(id, loc[p].canvasElement, trow)))
         ELSE /\ Finish(p, Err("Error", "violates foreign key constraint", id))
              /\ UNCHANGED text
  /\ UNCHANGED << canvas, draw, nextId, now, op, loc, txCanvas, txDraw, snapshots,
               clientVars >>

\* ----------------------------------------------------------- createDrawing
CallCreateDrawing(p, inputs) ==
  /\ Starts(p, inputs)
  /\ nextId + PendingInserts < MaxIds
  /\ \E input \in inputs.createDrawing :
       op' = [op EXCEPT ![p] = [name |-> "createDrawing", input |-> input]]
  /\ pc' = [pc EXCEPT ![p] = "createDrawing_insertCanvas"]
  /\ UNCHANGED << canvas, text, draw, nextId, now, loc, txCanvas, txDraw, res, snapshots,
               clientVars >>

createDrawing_insertCanvas(p) ==
  /\ At(p, "createDrawing_insertCanvas")
  /\ nextId < MaxIds
  /\ LET input == op[p].input
         id == nextId + 1
         row == NewCanvasRow("drawing", input,
                             IF Has(input, "z_index") THEN input.z_index ELSE 0)
     IN  /\ canvas' = [canvas EXCEPT ![id] = row]
         /\ nextId' = id
         /\ loc' = [loc EXCEPT ![p] = [id |-> id, canvasElement |-> row]]
  /\ pc' = [pc EXCEPT ![p] = "createDrawing_insertDrawing"]
  /\ UNCHANGED << text, draw, now, op, txCanvas, txDraw, res, snapshots, clientVars >>

createDrawing_insertDrawing(p) ==
  /\ At(p, "createDrawing_insertDrawing")
  /\ LET id == loc[p].id
         drow == [strokes |-> op[p].input.strokes]
     IN  IF canvas[id] # NoRow
         THEN /\ draw' = [draw EXCEPT ![id] = drow]
              /\ Finish(p, Ok(DrawingElement(id, loc[p].canvasElement,
                                             [strokes |-> op[p].input.strokes])))
         ELSE /\ Finish(p, Err("Error", "violates foreign key constraint", id))
              /\ UNCHANGED draw
  /\ UNCHANGED << canvas, text, nextId, now, op, loc, txCanvas, txDraw, snapshots,
               clientVars >>

\* ---------------------------------------------------------- updateTextNote
\* ApplyCanvasUpdates testing z_index for truth (if (input.z_index)) instead
\* of comparing it with undefined
ApplyCanvasUpdatesTruthy(row, input, ts) ==
  [row EXCEPT
     !.updated_at = ts,
     !.position_x = IF Has(input, "position") THEN Numeric6(input.position.x) ELSE @,
     !.position_y = IF Has(input, "position") THEN Numeric6(input.position.y) ELSE @,
     !.width = IF Has(input, "size") THEN Numeric6(input.size.width) ELSE @,
     !.height = IF Has(input, "size") THEN Numeric6(input.size.height) ELSE @,
     !.z_index = IF Has(input, "z_index") /\ input.z_index # 0 THEN input.z_index ELSE @]

\* ApplyCanvasUpdates with both timestamp columns in the set clause
ApplyCanvasUpdatesSetsCreatedAt(row, input, ts) ==
  [row EXCEPT
     !.created_at = ts,
     !.updated_at = ts,
     !.position_x = IF Has(input, "position") THEN Numeric6(input.position.x) ELSE @,
     !.position_y = IF Has(input, "position") THEN Numeric6(input.position.y) ELSE @,
     !.width = IF Has(input, "size") THEN Numeric6(input.size.width) ELSE @,
     !.height = IF Has(input, "size") THEN Numeric6(input.size.height) ELSE @,
     !.z_index = IF Has(input, "z_index") THEN input.z_index ELSE @]

\* canvasUpdates of updateTextNote and updateDrawing applied to a row:
\* updated_at always, the geometry fields the input carries
ApplyCanvasUpdates(row, input, ts) ==
  [row EXCEPT
     !.updated_at = ts,
     !.position_x = IF Has(input, "position") THEN Numeric6(input.position.x) ELSE @,
     !.position_y = IF Has(input, "position") THEN Numeric6(input.position.y) ELSE @,
     !.width = IF Has(input, "size") THEN Numeric6(input.size.width) ELSE @,
     !.height = IF Has(input, "size") THEN Numeric6(input.size.height) ELSE @,
     !.z_index = IF Has(input, "z_index") THEN input.z_index ELSE @]

ApplyTextUpdates(trow, input) ==
  [trow EXCEPT
     !.content = IF Has(input, "content") THEN input.content ELSE @,
     !.font_size = IF Has(input, "font_size") THEN Numeric2(input.font_size) ELSE @,
     !.font_color = IF Has(input, "font_color") THEN input.font_color ELSE @,
     !.background_color = IF Has(input, "background_color")
                          THEN input.background_color ELSE @]

HasTextFields(input) ==
  \/ Has(input, "content")
  \/ Has(input, "font_size")
  \/ Has(input, "font_color")
  \/ Has(input, "background_color")

\* CallUpdateTextNote without the existence check
CallUpdateTextNoteUnchecked(p, inputs) ==
  /\ Starts(p, inputs)
  /\ \E id \in inputs.ids, patch \in inputs.updateTextNote :
       /\ op' = [op EXCEPT ![p] = [name |-> "updateTextNote",
                                   input |-> [id |-> id] @@ patch]]
       /\ loc' = [loc EXCEPT ![p] =
                    [ts |-> now,
                     existing |-> [canvas_elements |-> canvas[id],
                                   text_notes |-> text[id]]]]
       /\ pc' = [pc EXCEPT ![p] = "updateTextNote_updateCanvas"]
  /\ UNCHANGED << canvas, text, draw, nextId, now, txCanvas, txDraw, res, snapshots,
               clientVars >>

\* the call and its first statement: the existence check
CallUpdateTextNote(p, inputs) ==
  /\ Starts(p, inputs)
  /\ \E id \in inputs.ids, patch \in inputs.updateTextNote :
       /\ op' = [op EXCEPT ![p] = [name |-> "updateTextNote",
                                   input |-> [id |-> id] @@ patch]]
       /\ IF canvas[id].type = "text_note" /\ text[id] # NoRow
          THEN /\ loc' = [loc EXCEPT ![p] =
                          [ts |-> now,
                           existing |-> [canvas_elements |-> canvas[id],
                                         text_notes |-> text[id]]]]
               /\ pc' = [pc EXCEPT ![p] = "updateTextNote_updateCanvas"]
               /\ UNCHANGED res
          ELSE /\ Finish(p, Err("Error", "Text note with ID not found", id))
               /\ UNCHANGED loc
  /\ UNCHANGED << canvas, text, draw, nextId, now, txCanvas, txDraw, snapshots,
               clientVars >>

\* updateTextNote_updateCanvas writing the row it read at the existence
\* check back when the row is gone (an upsert)
updateTextNote_updateCanvasUpserts(p) ==
  /\ At(p, "updateTextNote_updateCanvas")
  /\ LET input == op[p].input
         id == input.id
     IN  /\ ~Locked(p, id)
         /\ canvas' = [canvas EXCEPT ![id] =
                         ApplyCanvasUpdates(IF canvas[id] = NoRow
                                            THEN loc[p].existing.canvas_elements
                                            ELSE canvas[id], input, loc[p].ts)]
         /\ pc' = [pc EXCEPT ![p] = IF HasTextFields(input)
                                    THEN "updateTextNote_updateText"
                                    ELSE "updateTextNote_fetch"]
  /\ UNCHANGED << text, draw, nextId, now, op, loc, txCanvas, txDraw, res, snapshots,
               clientVars >>

updateTextNote_updateCanvas(p) ==
  /\ At(p, "updateTextNote_updateCanvas")
  /\ LET input == op[p].input
         id == input.id
     IN  /\ ~Locked(p, id)
         /\ canvas' = IF canvas[id] = NoRow THEN canvas
                      ELSE [canvas EXCEPT ![id] = ApplyCanvasUpdates(@, input, loc[p].ts)]
         /\ pc' = [pc EXCEPT ![p] = IF HasTextFields(input)
                                    THEN "updateTextNote_updateText"
                                    ELSE "updateTextNote_fetch"]
  /\ UNCHANGED << text, draw, nextId, now, op, loc, txCanvas, txDraw, res, snapshots,
               clientVars >>

updateTextNote_updateText(p) ==
  /\ At(p, "updateTextNote_updateText")
  /\ LET input == op[p].input
         id == input.id
     IN  text' = IF text[id] = NoRow THEN text
                 ELSE [text EXCEPT ![id] = ApplyTextUpdates(@, input)]
  /\ pc' = [pc EXCEPT ![p] = "updateTextNote_fetch"]
  /\ UNCHANGED << canvas, draw, nextId, now, op, loc, txCanvas, txDraw, res, snapshots,
               clientVars >>

updateTextNote_fetch(p) ==
  /\ At(p, "updateTextNote_fetch")
  /\ LET id == op[p].input.id
     IN  IF canvas[id] # NoRow /\ text[id] # NoRow
         THEN Finish(p, Ok(TextNoteElement(id, canvas[id], text[id])))
         ELSE Finish(p, Err("TypeError", "undefined is not an object", id))
  /\ UNCHANGED << canvas, text, draw, nextId, now, op, loc, txCanvas, txDraw, snapshots,
               clientVars >>

\* ----------------------------------------------------------- updateDrawing
\* the call, the start of the transaction and the existence check in it
CallUpdateDrawing(p, inputs) ==
  /\ Starts(p, inputs)
  /\ \E id \in inputs.ids, patch \in inputs.updateDrawing :
       /\ op' = [op EXCEPT ![p] = [name |-> "updateDrawing",
                                   input |-> [id |-> id] @@ patch]]
       /\ IF canvas[id].type = "drawing" /\ draw[id] # NoRow
          THEN /\ loc' = [loc EXCEPT ![p] =
                          [ts |-> now,
                           existing |-> [canvas_elements |-> canvas[id],
                                         drawings |-> draw[id]]]]
               /\ pc' = [pc EXCEPT ![p] = "updateDrawing_updateCanvas"]
               /\ UNCHANGED res
          ELSE /\ Finish(p, Err("Error", "Drawing with ID not found", id))
               /\ UNCHANGED loc
  /\ UNCHANGED << canvas, text, draw, nextId, now, txCanvas, txDraw, snapshots,
               clientVars >>

updateDrawing_updateCanvas(p) ==
  /\ At(p, "updateDrawing_updateCanvas")
  /\ LET input == op[p].input
         id == input.id
     IN  /\ ~Locked(p, id)
         /\ txCanvas' = IF canvas[id] = NoRow THEN txCanvas
                        ELSE [txCanvas EXCEPT ![p][id] =
                                ApplyCanvasUpdates(canvas[id], input, loc[p].ts)]
         /\ pc' = [pc EXCEPT ![p] = IF Has(input, "strokes")
                                    THEN "updateDrawing_updateDrawing"
                                    ELSE "updateDrawing_fetch"]
  /\ UNCHANGED << canvas, text, draw, nextId, now, op, loc, txDraw, res, snapshots,
               clientVars >>

updateDrawing_updateDrawing(p) ==
  /\ At(p, "updateDrawing_updateDrawing")
  /\ LET input == op[p].input
         id == input.id
     IN  txDraw' = IF draw[id] = NoRow THEN txDraw
                   ELSE [txDraw EXCEPT ![p][id] = [strokes |-> input.strokes]]
  /\ pc' = [pc EXCEPT ![p] = "updateDrawing_fetch"]
  /\ UNCHANGED << canvas, text, draw, nextId, now, op, loc, txCanvas, res, snapshots,
               clientVars >>

\* the last select of the transaction, then its commit (or, when the select
\* found nothing, the TypeError that rolls it back)
updateDrawing_fetch(p) ==
  /\ At(p, "updateDrawing_fetch")
  /\ LET id == op[p].input.id
     IN  IF ViewCanvas(p, id) # NoRow /\ ViewDraw(p, id) # NoRow
         THEN /\ Finish(p, Ok(DrawingElement(id, ViewCanvas(p, id), ViewDraw(p, id))))
              /\ canvas' = CommittedCanvas(p)
              /\ draw' = CommittedDraw(p)
         ELSE /\ Finish(p, Err("TypeError", "undefined is not an object", id))
              /\ UNCHANGED << canvas, draw >>
  /\ txCanvas' = [txCanvas EXCEPT ![p] = NoTx]
  /\ txDraw' = [txDraw EXCEPT ![p] = NoTx]
  /\ UNCHANGED << text, nextId, now, op, loc, snapshots, clientVars >>

\* -------------------------------------------------------- getCanvasElement
\* the call and its first statement: the select on canvas_elements
CallGetCanvasElement(p, inputs) ==
  /\ Starts(p, inputs)
  /\ \E id \in inputs.ids :
       /\ op' = [op EXCEPT ![p] = [name |-> "getCanvasElement", input |-> [id |-> id]]]
       /\ IF canvas[id] # NoRow
          THEN /\ loc' = [loc EXCEPT ![p] = [canvasElement |-> canvas[id]]]
               /\ pc' = [pc EXCEPT ![p] = "getCanvasElement_join"]
               /\ UNCHANGED res
          ELSE /\ Finish(p, Err("Error", "Canvas element with id not found", id))
               /\ UNCHANGED loc
  /\ UNCHANGED << canvas, text, draw, nextId, now, txCanvas, txDraw, snapshots,
               clientVars >>

\* getCanvasElement_join reporting a missing payload row with the message
\* of a missing shared row
getCanvasElement_joinSaysNotFound(p) ==
  /\ At(p, "getCanvasElement_join")
  /\ LET id == op[p].input.id
         type == loc[p].canvasElement.type
     IN  CASE type = "text_note" ->
                IF canvas[id] # NoRow /\ text[id] # NoRow
                THEN Finish(p, Ok(TextNoteElement(id, canvas[id], text[id])))
                ELSE Finish(p, Err("Error", "Canvas element with id not found", id))
           [] type = "drawing" ->
                IF canvas[id] # NoRow /\ draw[id] # NoRow
                THEN Finish(p, Ok(DrawingElement(id, canvas[id], draw[id])))
                ELSE Finish(p, Err("Error", "Canvas element with id not found", id))
           [] OTHER -> Finish(p, Err("Error", "Canvas element with id not found", id))
  /\ UNCHANGED << canvas, text, draw, nextId, now, op, loc, txCanvas, txDraw, snapshots,
               clientVars >>

\* the inner join with the payload table the type selects
getCanvasElement_join(p) ==
  /\ At(p, "getCanvasElement_join")
  /\ LET id == op[p].input.id
         type == loc[p].canvasElement.type
     IN  CASE type = "text_note" ->
                IF canvas[id] # NoRow /\ text[id] # NoRow
                THEN Finish(p, Ok(TextNoteElement(id, canvas[id], text[id])))
                ELSE Finish(p, Err("Error", "Text note data not found for element", id))
           [] type = "drawing" ->
                IF canvas[id] # NoRow /\ draw[id] # NoRow
                THEN Finish(p, Ok(DrawingElement(id, canvas[id], draw[id])))
                ELSE Finish(p, Err("Error", "Drawing data not found for element", id))
           [] OTHER -> Finish(p, Err("Error", "Unknown canvas element type", id))
  /\ UNCHANGED << canvas, text, draw, nextId, now, op, loc, txCanvas, txDraw, snapshots,
               clientVars >>

\* the caller of a create that succeeded takes the element it returned and
\* at once calls getCanvasElement with that element's id: the call and its
\* first statement, the select on canvas_elements
CallGetCanvasElementOfCreated(p) ==
  /\ pc[p] = "done"
  /\ op[p].name \in { "createTextNote", "createDrawing" }
  /\ res[p].status = "ok"
  /\ LET id == res[p].value.id
     IN  /\ op' = [op EXCEPT ![p] = [name |-> "getCanvasElement", input |-> [id |-> id],
                                     created |-> res[p].value]]
         /\ IF canvas[id] # NoRow
            THEN /\ loc' = [loc EXCEPT ![p] = [canvasElement |-> canvas[id]]]
                 /\ pc' = [pc EXCEPT ![p] = "getCanvasElement_join"]
                 /\ res' = [res EXCEPT ![p] = NoRes]
            ELSE /\ res' = [res EXCEPT ![p] =
                              Err("Error", "Canvas element with id not found", id)]
                 /\ UNCHANGED << pc, loc >>
  /\ UNCHANGED << canvas, text, draw, nextId, now, txCanvas, txDraw, snapshots,
               clientVars >>

\* ------------------------------------------------------- getCanvasElements
\* what the left joins and the parse functions give for a payload row that
\* is not there: null, parseFloat(null), null
NullString == "null"
NaN == -1
NullStrokes == << [null |-> TRUE] >>

\* InViewport as a test of overlap of the element's rectangle with the
\* viewport
InViewportOverlaps(row, viewport) ==
  /\ row.position_x <= viewport.x + viewport.width
  /\ row.position_x + row.width >= viewport.x
  /\ row.position_y <= viewport.y + viewport.height
  /\ row.position_y + row.height >= viewport.y

\* the where clause of the viewport filter
InViewport(row, viewport) ==
  /\ row.position_x <= viewport.x + viewport.width
  /\ row.position_x >= viewport.x
  /\ row.position_y <= viewport.y + viewport.height
  /\ row.position_y >= viewport.y

\* one result row turned into an element: the type decides which payload
\* columns are read, whether or not the join found them
ListedElement(id, row, trow, drow) ==
  [BaseElement(id, row) EXCEPT !.type = IF row.type = "text_note"
                                        THEN "text_note" ELSE "drawing"]
    @@ IF row.type = "text_note"
       THEN IF trow # NoRow THEN TextData(trow)
            ELSE [content |-> NullString, font_size |-> NaN,
                  font_color |-> NullString, background_color |-> NullString]
       ELSE IF drow # NoRow THEN DrawingData(drow)
            ELSE [strokes |-> NullStrokes]

\* Orders without the order by clause: the rows of ids in any order
OrdersUnsorted(ids) ==
  { order \in [1..Cardinality(ids) -> ids] :
      \A m, n \in 1..Cardinality(ids) : m # n => order[m] # order[n] }

\* the orders order by z_index asc can give the rows of ids: any order with
\* z_index ascending
Orders(ids) ==
  { order \in [1..Cardinality(ids) -> ids] :
      /\ \A m, n \in 1..Cardinality(ids) : m # n => order[m] # order[n]
      /\ \A m, n \in 1..Cardinality(ids) :
           m < n => canvas[order[m]].z_index <= canvas[order[n]].z_index }

\* the call and its one statement: the select with both left joins
CallGetCanvasElements(p, inputs) ==
  /\ Starts(p, inputs)
  /\ \E input \in inputs.getCanvasElements :
       LET ids == { i \in Ids : /\ canvas[i] # NoRow
                                /\ Has(input, "viewport")
                                     => InViewport(canvas[i], input.viewport) }
       IN  \E order \in Orders(ids) :
             LET elements == [n \in 1..Len(order) |->
                                ListedElement(order[n], canvas[order[n]],
                                              text[order[n]], draw[order[n]])]
             IN  /\ op' = [op EXCEPT ![p] = [name |-> "getCanvasElements",
                                             input |-> input]]
                 /\ Finish(p, Ok([elements |-> elements,
                                  total_count |-> Len(elements)]))
  /\ UNCHANGED << canvas, text, draw, nextId, now, loc, txCanvas, txDraw, snapshots,
               clientVars >>

\* ----------------------------------------------------- deleteCanvasElement
\* the call and its first statement: the select on canvas_elements
CallDeleteCanvasElement(p, inputs) ==
  /\ Starts(p, inputs)
  /\ \E id \in inputs.ids :
       /\ op' = [op EXCEPT ![p] = [name |-> "deleteCanvasElement", input |-> [id |-> id]]]
       /\ IF canvas[id] # NoRow
          THEN /\ loc' = [loc EXCEPT ![p] = [element |-> canvas[id]]]
               /\ pc' = [pc EXCEPT ![p] = "deleteCanvasElement_selectData"]
               /\ UNCHANGED res
          ELSE /\ Finish(p, Err("Error", "Canvas element with id not found", id))
               /\ UNCHANGED loc
  /\ UNCHANGED << canvas, text, draw, nextId, now, txCanvas, txDraw, snapshots,
               clientVars >>

\* specificData: the payload row when there is one, {} otherwise
SpecificData(type, trow, drow) ==
  CASE type = "text_note" /\ trow # NoRow -> TextData(trow)
    [] type = "drawing" /\ drow # NoRow -> DrawingData(drow)
    [] OTHER -> EmptyObject

deleteCanvasElement_selectData(p) ==
  /\ At(p, "deleteCanvasElement_selectData")
  /\ LET id == op[p].input.id
     IN  loc' = [loc EXCEPT ![p] =
                   [element |-> loc[p].element,
                    specificData |-> SpecificData(loc[p].element.type, text[id], draw[id])]]
  /\ pc' = [pc EXCEPT ![p] = "deleteCanvasElement_delete"]
  /\ UNCHANGED << canvas, text, draw, nextId, now, op, txCanvas, txDraw, res, snapshots,
               clientVars >>

\* deleteCanvasElement_delete with foreign keys that do not cascade
deleteCanvasElement_deleteNoCascade(p) ==
  /\ At(p, "deleteCanvasElement_delete")
  /\ LET id == op[p].input.id
     IN  /\ ~Locked(p, id)
         /\ canvas' = [canvas EXCEPT ![id] = NoRow]
         /\ loc' = [loc EXCEPT ![p] =
                      loc[p] @@ [removed |-> [canvas_elements |-> canvas[id],
                                              text_notes |-> text[id],
                                              drawings |-> draw[id]]]]
         /\ Finish(p, Ok(BaseElement(id, loc[p].element) @@ loc[p].specificData))
         /\ snapshots' = [snapshots EXCEPT ![id] = @ + 1]
  /\ UNCHANGED << text, draw, nextId, now, op, txCanvas, txDraw, clientVars >>

\* the delete on canvas_elements; the foreign keys of text_notes and
\* drawings cascade.  loc.removed keeps what the statement removed.
deleteCanvasElement_delete(p) ==
  /\ At(p, "deleteCanvasElement_delete")
  /\ LET id == op[p].input.id
     IN  /\ ~Locked(p, id)
         /\ canvas' = [canvas EXCEPT ![id] = NoRow]
         /\ text' = [text EXCEPT ![id] = NoRow]
         /\ draw' = [draw EXCEPT ![id] = NoRow]
         /\ loc' = [loc EXCEPT ![p] =
                      loc[p] @@ [removed |-> [canvas_elements |-> canvas[id],
                                              text_notes |-> text[id],
                                              drawings |-> draw[id]]]]
         /\ Finish(p, Ok(BaseElement(id, loc[p].element) @@ loc[p].specificData))
         /\ snapshots' = [snapshots EXCEPT ![id] = @ + 1]
  /\ UNCHANGED << nextId, now, op, txCanvas, txDraw, clientVars >>

\* ------------------------------------------------------ bulkUpdateElements
\* ApplyBulkUpdate writing z_index for every entry, 0 when the entry gives
\* none (update.z_index || 0)
ApplyBulkUpdateDefaultsZ(row, update, ts) ==
  [row EXCEPT
     !.updated_at = ts,
     !.position_x = IF Has(update, "position") THEN Numeric6(update.position.x) ELSE @,
     !.position_y = IF Has(update, "position") THEN Numeric6(update.position.y) ELSE @,
     !.z_index = IF Has(update, "z_index") THEN update.z_index ELSE 0]

\* updateData of one batch entry applied to a row
ApplyBulkUpdate(row, update, ts) ==
  [row EXCEPT
     !.updated_at = ts,
     !.position_x = IF Has(update, "position") THEN Numeric6(update.position.x) ELSE @,
     !.position_y = IF Has(update, "position") THEN Numeric6(update.position.y) ELSE @,
     !.z_index = IF Has(update, "z_index") THEN update.z_index ELSE @]

\* Object.keys(updateData).length > 1: the entry sets something besides
\* updated_at, so the loop runs an update statement for it
RunsUpdate(update) == Has(update, "position") \/ Has(update, "z_index")

\* the first entry at or after position i that runs a statement
\* (Len(updates) + 1 when there is none)
NextUpdate(updates, i) ==
  LET later == { j \in i..Len(updates) : RunsUpdate(updates[j]) }
  IN  IF later = {} THEN Len(updates) + 1
      ELSE CHOOSE j \in later : \A k \in later : j <= k

ElementIds(updates) == { updates[j].id : j \in 1..Len(updates) }

\* the three tables as they stand
Tables == [canvas |-> canvas, text |-> text, draw |-> draw]

\* the call; for a non-empty batch the transaction starts and the loop runs
\* up to its first update statement.  loc.before and loc.start are history:
\* the tables and the time at the call.
CallBulkUpdateElements(p, inputs) ==
  /\ Starts(p, inputs)
  /\ \E updates \in inputs.bulkUpdateElements :
       /\ op' = [op EXCEPT ![p] = [name |-> "bulkUpdateElements",
                                   input |-> [updates |-> updates]]]
       /\ IF Len(updates) = 0
          THEN /\ Finish(p, Ok(<< >>))
               /\ loc' = [loc EXCEPT ![p] = [before |-> Tables, start |-> now]]
          ELSE /\ loc' = [loc EXCEPT ![p] = [i |-> NextUpdate(updates, 1), ts |-> now,
                                             before |-> Tables, start |-> now]]
               /\ pc' = [pc EXCEPT ![p] =
                           IF NextUpdate(updates, 1) <= Len(updates)
                           THEN "bulkUpdateElements_update"
                           ELSE "bulkUpdateElements_commit"]
               /\ UNCHANGED res
  /\ UNCHANGED << canvas, text, draw, nextId, now, txCanvas, txDraw, snapshots,
               clientVars >>

\* one update statement of the loop, then the loop up to the next one
bulkUpdateElements_update(p) ==
  /\ At(p, "bulkUpdateElements_update")
  /\ LET updates == op[p].input.updates
         update == updates[loc[p].i]
         id == update.id
         next == NextUpdate(updates, loc[p].i + 1)
     IN  /\ ~Locked(p, id)
         /\ txCanvas' = IF ViewCanvas(p, id) = NoRow THEN txCanvas
                        ELSE [txCanvas EXCEPT ![p][id] =
                                ApplyBulkUpdate(ViewCanvas(p, id), update, loc[p].ts)]
         /\ loc' = [loc EXCEPT ![p].i = next, ![p].ts = now]
         /\ pc' = [pc EXCEPT ![p] = IF next <= Len(updates)
                                    THEN "bulkUpdateElements_update"
                                    ELSE "bulkUpdateElements_commit"]
  /\ UNCHANGED << canvas, text, draw, nextId, now, op, txDraw, res, snapshots,
               clientVars >>

\* the transaction commits
bulkUpdateElements_commit(p) ==
  /\ At(p, "bulkUpdateElements_commit")
  /\ canvas' = CommittedCanvas(p)
  /\ txCanvas' = [txCanvas EXCEPT ![p] = NoTx]
  /\ pc' = [pc EXCEPT ![p] = "bulkUpdateElements_selectCanvas"]
  /\ UNCHANGED << text, draw, nextId, now, op, loc, txDraw, res, snapshots,
               clientVars >>

\* results: one element per row of canvasElements, joined through the
\* lookup maps; a row without its payload throws.  The select has no
\* ORDER BY; the list is given here in id order.
BulkResults(canvasElements, textNotes, drawings) ==
  LET found == { i \in Ids : canvasElements[i] # NoRow }
      missing == { i \in found :
                     \/ canvasElements[i].type = "text_note" /\ textNotes[i] = NoRow
                     \/ canvasElements[i].type = "drawing" /\ drawings[i] = NoRow }
      IsFound(i) == i \in found
      order == SelectSeq([i \in 1..MaxIds |-> i], IsFound)
      first == CHOOSE i \in missing : \A k \in missing : i <= k
  IN  IF missing # {}
      THEN Err("Error",
               IF canvasElements[first].type = "text_note"
               THEN "Text note data not found for element"
               ELSE "Drawing data not found for element", first)
      ELSE Ok([n \in 1..Len(order) |->
                 IF canvasElements[order[n]].type = "text_note"
                 THEN TextNoteElement(order[n], canvasElements[order[n]], textNotes[order[n]])
                 ELSE DrawingElement(order[n], canvasElements[order[n]], drawings[order[n]])])

NoRows == [i \in Ids |-> NoRow]

HasType(canvasElements, type) == \E i \in Ids : canvasElements[i].type = type

\* bulkUpdateElements_selectCanvas reading the rows as they were before the
\* transaction instead of the rows it committed
bulkUpdateElements_selectCanvasStale(p) ==
  /\ At(p, "bulkUpdateElements_selectCanvas")
  /\ LET elementIds == ElementIds(op[p].input.updates)
         canvasElements == [i \in Ids |-> IF i \in elementIds THEN loc[p].before.canvas[i]
                                          ELSE NoRow]
     IN  /\ loc' = [loc EXCEPT ![p] = [canvasElements |-> canvasElements,
                                       textNotes |-> NoRows, drawings |-> NoRows,
                                       before |-> loc[p].before,
                                       start |-> loc[p].start]]
         /\ IF HasType(canvasElements, "text_note")
            THEN /\ pc' = [pc EXCEPT ![p] = "bulkUpdateElements_selectText"]
                 /\ UNCHANGED res
            ELSE IF HasType(canvasElements, "drawing")
            THEN /\ pc' = [pc EXCEPT ![p] = "bulkUpdateElements_selectDrawings"]
                 /\ UNCHANGED res
            ELSE Finish(p, BulkResults(canvasElements, NoRows, NoRows))
  /\ UNCHANGED << canvas, text, draw, nextId, now, op, txCanvas, txDraw, snapshots,
               clientVars >>

\* select ... where id in elementIds, after the transaction
bulkUpdateElements_selectCanvas(p) ==
  /\ At(p, "bulkUpdateElements_selectCanvas")
  /\ LET elementIds == ElementIds(op[p].input.updates)
         canvasElements == [i \in Ids |-> IF i \in elementIds THEN canvas[i] ELSE NoRow]
     IN  /\ loc' = [loc EXCEPT ![p] = [canvasElements |-> canvasElements,
                                       textNotes |-> NoRows, drawings |-> NoRows,
                                       before |-> loc[p].before,
                                       start |-> loc[p].start]]
         /\ IF HasType(canvasElements, "text_note")
            THEN /\ pc' = [pc EXCEPT ![p] = "bulkUpdateElements_selectText"]
                 /\ UNCHANGED res
            ELSE IF HasType(canvasElements, "drawing")
            THEN /\ pc' = [pc EXCEPT ![p] = "bulkUpdateElements_selectDrawings"]
                 /\ UNCHANGED res
            ELSE Finish(p, BulkResults(canvasElements, NoRows, NoRows))
  /\ UNCHANGED << canvas, text, draw, nextId, now, op, txCanvas, txDraw, snapshots,
               clientVars >>

\* select from text_notes where id in textNoteIds
bulkUpdateElements_selectText(p) ==
  /\ At(p, "bulkUpdateElements_selectText")
  /\ LET canvasElements == loc[p].canvasElements
         textNotes == [i \in Ids |-> IF canvasElements[i].type = "text_note"
                                     THEN text[i] ELSE NoRow]
     IN  /\ loc' = [loc EXCEPT ![p].textNotes = textNotes]
         /\ IF HasType(canvasElements, "drawing")
            THEN /\ pc' = [pc EXCEPT ![p] = "bulkUpdateElements_selectDrawings"]
                 /\ UNCHANGED res
            ELSE Finish(p, BulkResults(canvasElements, textNotes, NoRows))
  /\ UNCHANGED << canvas, text, draw, nextId, now, op, txCanvas, txDraw, snapshots,
               clientVars >>

\* select from drawings where id in drawingIds
bulkUpdateElements_selectDrawings(p) ==
  /\ At(p, "bulkUpdateElements_selectDrawings")
  /\ LET canvasElements == loc[p].canvasElements
         drawings == [i \in Ids |-> IF canvasElements[i].type = "drawing"
                                    THEN draw[i] ELSE NoRow]
     IN  /\ loc' = [loc EXCEPT ![p].drawings = drawings]
         /\ Finish(p, BulkResults(canvasElements, loc[p].textNotes, drawings))
  /\ UNCHANGED << canvas, text, draw, nextId, now, op, txCanvas, txDraw, snapshots,
               clientVars >>

\* ====================================================================== the page
\* Every event the page handles is one step: the handlers of the element the
\* event hits and of its ancestors, in the order the event bubbles, all of
\* them reading the state of the last render.  A call of the server stays in
\* trpc until it returns.

\* the pointer positions, buttons and wheel deltas of the events
ClientPoints ==
  { [clientX |-> 0, clientY |-> 0],
    [clientX |-> 2 * Milli, clientY |-> 3 * Milli],
    [clientX |-> 12 * Milli, clientY |-> 8 * Milli] }
Buttons == { 0, 1 }
WheelDeltas == { 100, -5000, 5000 }
Modes == { "select", "text", "draw" }

\* an event is handled only while fewer than MaxEvents have been, and a
\* handler calls the server only while fewer than MaxCalls calls are under way
Handles(event) ==
  /\ events.handled < events.most
  /\ events' = [events EXCEPT !.handled = @ + 1, !.last = event]

\* a pointer-down is handled: its button, the mode it came in, and what
\* its handlers began, are kept for the events that follow it
Pressed(event, e, began) ==
  events' = [events EXCEPT
               !.handled = @ + 1, !.last = event,
               !.press = [button |-> e.button, mode |-> App.mode, began |-> began]]

Calls(new) == Len(trpc) + Len(new) <= MaxCalls /\ trpc' = trpc \o new

\* the record of a pointer move: the update the drag asked for, if it asked
Asked(event, calls) ==
  events' = [events EXCEPT !.handled = @ + 1, !.last = event,
               !.asked = IF calls = << >> THEN @ ELSE calls[1].input]

\* onViewportChange: the new viewport is set, and the effect that depends
\* on it loads the elements again
ViewportChange(vp) == << [name |-> "getCanvasElements", input |-> vp] >>

\* the position in App.elements of the element with this id, 0 if none
Find(id) ==
  IF \E n \in 1..Len(App.elements) : App.elements[n].id = id
  THEN CHOOSE n \in 1..Len(App.elements) :
         /\ App.elements[n].id = id
         /\ \A m \in 1..(n - 1) : App.elements[m].id # id
  ELSE 0

\* the element painted at point e of the window, if any: of the elements
\* whose rectangle holds the point the one painted last (higher z_index,
\* then later in the list)
Holds(element, e) ==
  LET c == toCanvas(e, App.viewport)
  IN  /\ element.position.x <= c.x /\ c.x <= element.position.x + element.size.width
      /\ element.position.y <= c.y /\ c.y <= element.position.y + element.size.height

PaintedOver(m, n) ==
  \/ App.elements[m].z_index > App.elements[n].z_index
  \/ App.elements[m].z_index = App.elements[n].z_index /\ m > n

Hit(e) ==
  LET under == { n \in 1..Len(App.elements) : Holds(App.elements[n], e) }
  IN  IF under = {} THEN 0
      ELSE CHOOSE n \in under : \A m \in under \ {n} : PaintedOver(n, m)

handleMouseDownFromOrigin(e) ==
  IF e.button = 1 \/ (e.button = 0 /\ InfiniteCanvas.isSpacePressed)
  THEN [InfiniteCanvas EXCEPT !.isPanning = TRUE,
                              !.panStart = [x |-> e.clientX, y |-> e.clientY]]
  ELSE InfiniteCanvas

\* InfiniteCanvas.handleMouseDown: the middle button, or the left button
\* with the space key held, starts a pan
startsPan(e) == e.button = 1 \/ (e.button = 0 /\ InfiniteCanvas.isSpacePressed)

handleMouseDown(e) ==
  IF startsPan(e)
  THEN [InfiniteCanvas EXCEPT !.isPanning = TRUE,
                              !.panStart = [x |-> e.clientX - App.viewport.x,
                                            y |-> e.clientY - App.viewport.y]]
  ELSE InfiniteCanvas

\* pointer down on the canvas itself, outside draw mode
MouseDownOnCanvas ==
  /\ events.handled < events.most
  /\ App.mode # "draw"
  /\ \E point \in ClientPoints, button \in Buttons :
       LET e == point @@ [button |-> button]
       IN  /\ Hit(e) = 0
           /\ InfiniteCanvas' = handleMouseDown(e)
           /\ Pressed("MouseDownOnCanvas", e,
                      IF startsPan(e) THEN { "isPanning" } ELSE {})
  /\ UNCHANGED << App, DrawingTool, trpc, serverVars >>

\* pointer down on an element, outside draw mode: handleElementMouseDown,
\* which in select mode selects the element, starts the drag and stops the
\* event, and in text mode returns and lets the event reach handleMouseDown
MouseDownOnElement ==
  /\ events.handled < events.most
  /\ App.mode # "draw"
  /\ \E point \in ClientPoints, button \in Buttons :
       LET e == point @@ [button |-> button]
           element == App.elements[Hit(e)]
           mouse == toCanvas(e, App.viewport)
           dragging == [InfiniteCanvas EXCEPT
                          !.dragElement =
                             [id |-> element.id,
                              offset |-> [x |-> mouse.x - element.position.x,
                                          y |-> mouse.y - element.position.y]],
                          !.isDragging = TRUE]
       IN  /\ Hit(e) # 0
           /\ IF App.mode # "select"
              THEN /\ InfiniteCanvas' = handleMouseDown(e)
                   /\ UNCHANGED App
              ELSE /\ App' = [App EXCEPT !.selectedElementId = element.id]
                   /\ InfiniteCanvas' = dragging
           /\ Pressed("MouseDownOnElement", e,
                      IF App.mode = "select" THEN { "isDragging" }
                      ELSE IF startsPan(e) THEN { "isPanning" } ELSE {})
  /\ UNCHANGED << DrawingTool, trpc, serverVars >>

\* pointer down in draw mode, where the overlay of the drawing tool covers
\* the canvas: DrawingTool.handleMouseDown, then handleMouseDown of the
\* canvas the event bubbles to
MouseDownOnOverlay ==
  /\ events.handled < events.most
  /\ App.mode = "draw"
  /\ \E point \in ClientPoints, button \in Buttons :
       LET e == point @@ [button |-> button]
           tool == IF e.button # 0 THEN DrawingTool
                   ELSE [DrawingTool EXCEPT
                           !.currentStroke = << toCanvas(e, App.viewport) >>,
                           !.isDrawing = TRUE]
       IN  /\ DrawingTool' = tool
           /\ InfiniteCanvas' = handleMouseDown(e)
           /\ Pressed("MouseDownOnOverlay", e,
                      (IF e.button = 0 THEN { "isDrawing" } ELSE {})
                        \cup (IF startsPan(e) THEN { "isPanning" } ELSE {}))
  /\ UNCHANGED << App, trpc, serverVars >>

\* App.updateElement: the update call for the element's type, if the
\* element is in the list
updateElement(elementId, updates) ==
  IF Find(elementId) = 0 THEN << >>
  ELSE << [name |-> IF App.elements[Find(elementId)].type = "text_note"
                    THEN "updateTextNote" ELSE "updateDrawing",
           input |-> [id |-> elementId] @@ updates] >>

\* InfiniteCanvas.handleMouseMove: during a pan the viewport follows the
\* pointer, at the distance from it that the pointer-down recorded; the
\* viewports the handler passes to onViewportChange
handleMouseMoveAlways(e) ==
  << [App.viewport EXCEPT !.x = e.clientX - InfiniteCanvas.panStart.x,
                          !.y = e.clientY - InfiniteCanvas.panStart.y] >>

handleMouseMove(e) ==
  IF InfiniteCanvas.isPanning
  THEN << [App.viewport EXCEPT !.x = e.clientX - InfiniteCanvas.panStart.x,
                               !.y = e.clientY - InfiniteCanvas.panStart.y] >>
  ELSE << >>

handleElementDragUnscaled(e) ==
  LET mouse == [x |-> e.clientX - rect.left - App.viewport.x,
                y |-> e.clientY - rect.top - App.viewport.y]
  IN  IF InfiniteCanvas.dragElement = null \/ ~InfiniteCanvas.isDragging THEN << >>
      ELSE updateElement(InfiniteCanvas.dragElement.id,
                         [position |->
                            [x |-> mouse.x - InfiniteCanvas.dragElement.offset.x,
                             y |-> mouse.y - InfiniteCanvas.dragElement.offset.y]])

\* InfiniteCanvas.handleElementDrag: during a drag the element is asked to
\* the canvas point under the pointer less the offset the pointer-down
\* recorded; the calls the handler makes
handleElementDrag(e) ==
  LET mouse == toCanvas(e, App.viewport)
  IN  IF InfiniteCanvas.dragElement = null \/ ~InfiniteCanvas.isDragging THEN << >>
      ELSE updateElement(InfiniteCanvas.dragElement.id,
                         [position |->
                            [x |-> mouse.x - InfiniteCanvas.dragElement.offset.x,
                             y |-> mouse.y - InfiniteCanvas.dragElement.offset.y]])

\* pointer move: in draw mode DrawingTool.handleMouseMove, which adds the
\* point to the stroke being drawn; then on the canvas handleMouseMove and
\* handleElementDrag, both reading the state of the last render
MouseMove ==
  /\ events.handled < events.most
  /\ \E point \in ClientPoints :
       LET e == point
       IN  /\ DrawingTool' =
                IF App.mode = "draw" /\ DrawingTool.isDrawing
                THEN [DrawingTool EXCEPT
                        !.currentStroke = Append(@, toCanvas(e, App.viewport))]
                ELSE DrawingTool
           /\ App' = IF handleMouseMove(e) = << >> THEN App
                     ELSE [App EXCEPT !.viewport = handleMouseMove(e)[1]]
           /\ Calls((IF handleMouseMove(e) = << >> THEN << >>
                     ELSE ViewportChange(handleMouseMove(e)[1]))
                    \o handleElementDrag(e))
           /\ Asked("MouseMove", handleElementDrag(e))
  /\ UNCHANGED << InfiniteCanvas, serverVars >>

\* DrawingTool.handleMouseUp: a stroke of fewer than two points is dropped;
\* otherwise the drawing is made of the stroke, with the points relative to
\* the padded box around them, and createDrawing is called; the tool stays
\* in its drawing state until the call returns
MinOf(S) == CHOOSE v \in S : \A w \in S : v <= w
MaxOf(S) == CHOOSE v \in S : \A w \in S : v >= w

drawingInputTight ==
  LET stroke == DrawingTool.currentStroke
      xs == { stroke[n].x : n \in 1..Len(stroke) }
      ys == { stroke[n].y : n \in 1..Len(stroke) }
      padding == DrawingTool.strokeWidth + 5 * Milli
      position == [x |-> MinOf(xs) - padding, y |-> MinOf(ys) - padding]
      size == [width |-> MaxOf(xs) - MinOf(xs) + padding,
               height |-> MaxOf(ys) - MinOf(ys) + padding]
      adjustedPoints == [n \in 1..Len(stroke) |->
                           [x |-> stroke[n].x - position.x,
                            y |-> stroke[n].y - position.y]]
  IN  [position |-> position, size |-> size,
       strokes |-> << [points |-> adjustedPoints, color |-> "#000000",
                       width |-> DrawingTool.strokeWidth] >>,
       z_index |-> Len(App.elements)]

drawingInput ==
  LET stroke == DrawingTool.currentStroke
      xs == { stroke[n].x : n \in 1..Len(stroke) }
      ys == { stroke[n].y : n \in 1..Len(stroke) }
      padding == DrawingTool.strokeWidth + 5 * Milli
      position == [x |-> MinOf(xs) - padding, y |-> MinOf(ys) - padding]
      size == [width |-> MaxOf(xs) - MinOf(xs) + padding * 2,
               height |-> MaxOf(ys) - MinOf(ys) + padding * 2]
      adjustedPoints == [n \in 1..Len(stroke) |->
                           [x |-> stroke[n].x - position.x,
                            y |-> stroke[n].y - position.y]]
  IN  [position |-> position, size |-> size,
       strokes |-> << [points |-> adjustedPoints, color |-> "#000000",
                       width |-> DrawingTool.strokeWidth] >>,
       z_index |-> Len(App.elements)]

StrokeEndsEmpty == ~DrawingTool.isDrawing \/ Len(DrawingTool.currentStroke) < 1

StrokeEnds == ~DrawingTool.isDrawing \/ Len(DrawingTool.currentStroke) < 2

DrawingTool_handleMouseUp ==
  IF StrokeEnds
  THEN /\ DrawingTool' = [DrawingTool EXCEPT !.isDrawing = FALSE, !.currentStroke = << >>]
       /\ Calls(<< >>)
  ELSE /\ UNCHANGED DrawingTool
       /\ Calls(<< [name |-> "createDrawing", input |-> drawingInput, tool |-> TRUE] >>)

\* pointer up: in draw mode DrawingTool.handleMouseUp; then handleMouseUp
\* of the canvas, which ends pan and drag
MouseUp ==
  /\ Handles("MouseUp")
  /\ IF App.mode = "draw" THEN DrawingTool_handleMouseUp
     ELSE UNCHANGED << DrawingTool, trpc >>
  /\ InfiniteCanvas' = [InfiniteCanvas EXCEPT !.isPanning = FALSE, !.dragElement = null,
                                              !.isDragging = FALSE]
  /\ UNCHANGED << App, serverVars >>

\* the pointer leaves the overlay of the drawing tool: handleMouseUp of the
\* tool alone
MouseLeave ==
  /\ Handles("MouseLeave")
  /\ App.mode = "draw"
  /\ DrawingTool_handleMouseUp
  /\ UNCHANGED << App, InfiniteCanvas, serverVars >>

\* the key handlers of the window
Keys == { " ", "v" }

KeyDown ==
  /\ Handles("KeyDown")
  /\ \E key \in Keys :
       IF key = " "
       THEN /\ InfiniteCanvas' = [InfiniteCanvas EXCEPT !.isSpacePressed = TRUE]
            /\ UNCHANGED App
       ELSE /\ App' = [App EXCEPT !.selectedElementId = nullId]
            /\ UNCHANGED InfiniteCanvas
  /\ UNCHANGED << DrawingTool, trpc, serverVars >>

KeyUp ==
  /\ Handles("KeyUp")
  /\ \E key \in Keys :
       IF key = " "
       THEN InfiniteCanvas' = [InfiniteCanvas EXCEPT !.isSpacePressed = FALSE,
                                                     !.isPanning = FALSE]
       ELSE UNCHANGED InfiniteCanvas
  /\ UNCHANGED << App, DrawingTool, trpc, serverVars >>

\* handleWheel: the zoom changes by deltaY * -0.001, kept within 0.1 and 3,
\* and the offset moves so that the zoom is about the pointer
handleWheelAboutOrigin(e) ==
  LET delta == Times(e.deltaY * Milli, -1)
      newZoom == Max(Milli \div 10, Min(3 * Milli, App.viewport.zoom + delta))
      zoomRatio == Over(newZoom, App.viewport.zoom)
      newX == Times(App.viewport.x, zoomRatio)
      newY == Times(App.viewport.y, zoomRatio)
  IN  [App.viewport EXCEPT !.zoom = newZoom, !.x = newX, !.y = newY]

handleWheelUnclamped(e) ==
  LET delta == Times(e.deltaY * Milli, -1)
      newZoom == App.viewport.zoom + delta
      mouseX == e.clientX - rect.left
      mouseY == e.clientY - rect.top
      zoomRatio == Over(newZoom, App.viewport.zoom)
      newX == mouseX - Times(mouseX - App.viewport.x, zoomRatio)
      newY == mouseY - Times(mouseY - App.viewport.y, zoomRatio)
  IN  [App.viewport EXCEPT !.zoom = newZoom, !.x = newX, !.y = newY]

handleWheel(e) ==
  LET delta == Times(e.deltaY * Milli, -1)
      newZoom == Max(Milli \div 10, Min(3 * Milli, App.viewport.zoom + delta))
      mouseX == e.clientX - rect.left
      mouseY == e.clientY - rect.top
      zoomRatio == Over(newZoom, App.viewport.zoom)
      newX == mouseX - Times(mouseX - App.viewport.x, zoomRatio)
      newY == mouseY - Times(mouseY - App.viewport.y, zoomRatio)
  IN  [App.viewport EXCEPT !.zoom = newZoom, !.x = newX, !.y = newY]

Wheel ==
  /\ Handles("Wheel")
  /\ \E point \in ClientPoints, deltaY \in WheelDeltas :
       LET e == point @@ [deltaY |-> deltaY]
       IN  /\ App' = [App EXCEPT !.viewport = handleWheel(e)]
           /\ Calls(ViewportChange(handleWheel(e)))
  /\ UNCHANGED << InfiniteCanvas, DrawingTool, serverVars >>

\* handleCanvasClick: outside select mode, and while neither a pan nor a
\* drag is under way, a click in text mode asks for a new note at the canvas
\* point under the pointer; the calls the handler makes
handleCanvasClick(e) ==
  IF App.mode = "select" \/ InfiniteCanvas.isPanning \/ InfiniteCanvas.isDragging
  THEN << >>
  ELSE IF App.mode = "text"
       THEN << [name |-> "createTextNote",
                input |-> [position |-> toCanvas(e, App.viewport),
                           size |-> [width |-> 200 * Milli, height |-> 100 * Milli],
                           content |-> "New Note", font_size |-> 16 * Milli,
                           font_color |-> "#000000", background_color |-> "#ffff88",
                           z_index |-> Len(App.elements)]] >>
       ELSE << >>

\* the click the browser sends after the pointer-up of a left button: it
\* reaches handleCanvasClick from the canvas, from an element and from the
\* overlay of the drawing tool alike
Click ==
  /\ Handles("Click")
  /\ events.last = "MouseUp"
  /\ events.press.button = 0
  /\ \E point \in ClientPoints : Calls(handleCanvasClick(point))
  /\ UNCHANGED << App, InfiniteCanvas, DrawingTool, serverVars >>

\* the delete button of the toolbar, enabled while an element is selected:
\* App.deleteElement calls the server
DeleteSelected ==
  /\ Handles("DeleteSelected")
  /\ App.selectedElementId # nullId
  /\ Calls(<< [name |-> "deleteCanvasElement",
               input |-> [id |-> App.selectedElementId]] >>)
  /\ UNCHANGED << App, InfiniteCanvas, DrawingTool, serverVars >>

\* the toolbar sets the mode; the drawing tool is mounted in draw mode only,
\* so its state is new when the mode becomes draw and gone when it ceases
\* to be (a createDrawing call of a tool that is gone finds no tool on its
\* return)
SetMode ==
  /\ Handles("SetMode")
  /\ \E m \in Modes :
       /\ App' = [App EXCEPT !.mode = m]
       /\ IF (App.mode = "draw") # (m = "draw")
          THEN /\ DrawingTool' = [DrawingTool EXCEPT !.isDrawing = FALSE,
                                                     !.currentStroke = << >>]
               /\ trpc' = [n \in 1..Len(trpc) |->
                             IF trpc[n].name = "createDrawing"
                             THEN [trpc[n] EXCEPT !.tool = FALSE] ELSE trpc[n]]
          ELSE UNCHANGED << DrawingTool, trpc >>
  /\ UNCHANGED << InfiniteCanvas, serverVars >>

\* ------------------------------------------------------- calls that return
\* The server runs the handler of a call in one piece and the call returns
\* what the handler returned; or the call fails, and the page falls back on
\* what it knows.
Without(n) == [m \in 1..(Len(trpc) - 1) |-> IF m < n THEN trpc[m] ELSE trpc[m + 1]]

\* an element as the page holds it, from the shared row of the server
ClientElement(id, row) ==
  [id |-> id, type |-> row.type,
   position |-> [x |-> FromServer(row.position_x), y |-> FromServer(row.position_y)],
   size |-> [width |-> FromServer(row.width), height |-> FromServer(row.height)],
   z_index |-> row.z_index]

\* the position and the size of an input of the page, as the server reads them
ServerGeometry(input) ==
  [f \in DOMAIN input \cap { "position", "size" } |->
     [g \in DOMAIN input[f] |-> ToServer(input[f][g])]]

ServerStrokes(strokes) ==
  [n \in 1..Len(strokes) |->
     [points |-> [m \in 1..Len(strokes[n].points) |->
                    [x |-> ToServer(strokes[n].points[m].x),
                     y |-> ToServer(strokes[n].points[m].y)]],
      color |-> strokes[n].color,
      width |-> ToServer(strokes[n].width)]]

\* the stored elements the viewport filter of getCanvasElements lets
\* through for the viewport the page sent
InViewportIds(vp) ==
  { i \in Ids :
      /\ canvas[i] # NoRow
      /\ InViewport([position_x |-> FromServer(canvas[i].position_x),
                     position_y |-> FromServer(canvas[i].position_y)], vp) }

\* loadElements: the list replaces the elements of the page; when the call
\* fails the page shows no elements
getCanvasElementsReturns(n) ==
  /\ n <= Len(trpc)
  /\ trpc[n].name = "getCanvasElements"
  /\ LET vp == trpc[n].input
         ids == InViewportIds(vp)
     IN  \/ \E order \in Orders(ids) :
              App' = [App EXCEPT !.elements =
                        [m \in 1..Len(order) |-> ClientElement(order[m], canvas[order[m]])]]
         \/ App' = [App EXCEPT !.elements = << >>]
  /\ trpc' = Without(n)
  /\ UNCHANGED << InfiniteCanvas, DrawingTool, events, serverVars >>

\* the handler of an update call can run: the element and its payload of
\* the type the call is for are stored
Updatable(call) ==
  /\ call.input.id \in Ids
  /\ canvas[call.input.id] # NoRow
  /\ \/ /\ call.name = "updateTextNote"
        /\ canvas[call.input.id].type = "text_note" /\ text[call.input.id] # NoRow
     \/ /\ call.name = "updateDrawing"
        /\ canvas[call.input.id].type = "drawing" /\ draw[call.input.id] # NoRow

\* updateElement after its call: the element the server returned replaces
\* the element of that id; when the call fails the updates are merged into
\* the element the page holds
updateReturns(n) ==
  /\ n <= Len(trpc)
  /\ trpc[n].name \in { "updateTextNote", "updateDrawing" }
  /\ LET call == trpc[n]
         id == call.input.id
         row == ApplyCanvasUpdates(canvas[id], ServerGeometry(call.input), now)
     IN  \/ /\ Updatable(call)
            /\ canvas' = [canvas EXCEPT ![id] = row]
            /\ App' = [App EXCEPT !.elements =
                         [m \in 1..Len(App.elements) |->
                            IF App.elements[m].id = id THEN ClientElement(id, row)
                            ELSE App.elements[m]]]
         \/ /\ UNCHANGED canvas
            /\ App' = [App EXCEPT !.elements =
                         [m \in 1..Len(App.elements) |->
                            IF App.elements[m].id = id
                            THEN [App.elements[m] EXCEPT !.position = call.input.position]
                            ELSE App.elements[m]]]
  /\ trpc' = Without(n)
  /\ UNCHANGED << InfiniteCanvas, DrawingTool, events, text, draw, nextId, now, pc, op, loc,
                  txCanvas, txDraw, res, snapshots >>

\* App.createDrawing after its call: the drawing the server returned, or
\* when the call fails a drawing made of the input, is added to the
\* elements; then the tool that drew it, if it is still there, leaves its
\* drawing state
createDrawingReturns(n) ==
  /\ n <= Len(trpc)
  /\ trpc[n].name = "createDrawing"
  /\ LET call == trpc[n]
         id == nextId + 1
         input == ServerGeometry(call.input)
         row == NewCanvasRow("drawing", input, call.input.z_index)
         stubDrawing == [id |-> -(2 * now + 1), type |-> "drawing",
                         position |-> call.input.position, size |-> call.input.size,
                         z_index |-> call.input.z_index]
     IN  /\ \/ /\ nextId < MaxIds
               /\ canvas' = [canvas EXCEPT ![id] = row]
               /\ draw' = [draw EXCEPT ![id] = [strokes |-> ServerStrokes(call.input.strokes)]]
               /\ nextId' = id
               /\ App' = [App EXCEPT !.elements = Append(@, ClientElement(id, row))]
            \/ /\ UNCHANGED << canvas, draw, nextId >>
               /\ App' = [App EXCEPT !.elements = Append(@, stubDrawing)]
         /\ DrawingTool' = IF call.tool
                           THEN [DrawingTool EXCEPT !.isDrawing = FALSE,
                                                    !.currentStroke = << >>]
                           ELSE DrawingTool
  /\ trpc' = Without(n)
  /\ UNCHANGED << InfiniteCanvas, events, text, now, pc, op, loc, txCanvas, txDraw, res,
                  snapshots >>

\* App.createTextNote after its call: the note the server returned, or when
\* the call fails a note made of the input, is added to the elements
createTextNoteReturns(n) ==
  /\ n <= Len(trpc)
  /\ trpc[n].name = "createTextNote"
  /\ LET call == trpc[n]
         id == nextId + 1
         row == NewCanvasRow("text_note", ServerGeometry(call.input), call.input.z_index)
         stubNote == [id |-> -(2 * now + 2), type |-> "text_note",
                      position |-> call.input.position, size |-> call.input.size,
                      z_index |-> call.input.z_index]
     IN  \/ /\ nextId < MaxIds
            /\ canvas' = [canvas EXCEPT ![id] = row]
            /\ text' = [text EXCEPT ![id] =
                          NewTextRow([call.input EXCEPT
                                        !.font_size = ToServer(call.input.font_size)])]
            /\ nextId' = id
            /\ App' = [App EXCEPT !.elements = Append(@, ClientElement(id, row))]
         \/ /\ UNCHANGED << canvas, text, nextId >>
            /\ App' = [App EXCEPT !.elements = Append(@, stubNote)]
  /\ trpc' = Without(n)
  /\ UNCHANGED << InfiniteCanvas, DrawingTool, events, draw, now, pc, op, loc, txCanvas,
                  txDraw, res, snapshots >>

Unfiltered(id) == App.elements

\* the elements of the page without those of this id
Filtered(id) ==
  LET Keeps(el) == el.id # id
  IN  SelectSeq(App.elements, Keeps)

\* App.deleteElement after its call: whether the server deleted the element
\* or the call failed, the element leaves the list of the page, and the
\* selection is cleared
deleteReturns(n) ==
  /\ n <= Len(trpc)
  /\ trpc[n].name = "deleteCanvasElement"
  /\ LET id == trpc[n].input.id
     IN  /\ \/ /\ id \in Ids
               /\ canvas[id] # NoRow
               /\ canvas' = [canvas EXCEPT ![id] = NoRow]
               /\ text' = [text EXCEPT ![id] = NoRow]
               /\ draw' = [draw EXCEPT ![id] = NoRow]
               /\ snapshots' = [snapshots EXCEPT ![id] = @ + 1]
            \/ UNCHANGED << canvas, text, draw, snapshots >>
         /\ App' = [App EXCEPT !.elements = Filtered(id), !.selectedElementId = nullId]
  /\ trpc' = Without(n)
  /\ UNCHANGED << InfiniteCanvas, DrawingTool, events, nextId, now, pc, op, loc, txCanvas,
                  txDraw, res >>

\* the board the page of the specification opens: a text note and a drawing
\* are stored
StoredBoard(stored) ==
  /\ now = 0
  /\ canvas = [i \in Ids |->
                 IF i > stored THEN NoRow
                 ELSE IF i = 1 THEN NewCanvasRow("text_note", TextNoteInput, 1)
                      ELSE NewCanvasRow("drawing", [DrawingInput EXCEPT !.position = PosC], 0)]
  /\ text = [i \in Ids |-> IF i = 1 /\ i <= stored THEN NewTextRow(TextNoteInput) ELSE NoRow]
  /\ draw = [i \in Ids |-> IF i = 2 /\ i <= stored THEN [strokes |-> StrokesA] ELSE NoRow]
  /\ nextId = stored
  /\ pc = [p \in Procs |-> "idle"]
  /\ op = [p \in Procs |-> NoOp]
  /\ loc = [p \in Procs |-> NoLoc]
  /\ txCanvas = [p \in Procs |-> NoTx]
  /\ txDraw = [p \in Procs |-> NoTx]
  /\ res = [p \in Procs |-> NoRes]
  /\ snapshots = [i \in Ids |-> 0]

BoardInit == StoredBoard(2) /\ ClientInit

\* the board of one text note, opened by a page that handles the events of
\* a whole gesture
ToolsInit == StoredBoard(1) /\ PageInit(MaxGesture)

Event ==
  \/ MouseDownOnCanvas
  \/ MouseDownOnElement
  \/ MouseDownOnOverlay
  \/ MouseMove
  \/ MouseUp
  \/ MouseLeave
  \/ KeyDown
  \/ KeyUp
  \/ Wheel
  \/ SetMode

CallReturns(n) ==
  \/ getCanvasElementsReturns(n)
  \/ updateReturns(n)
  \/ createDrawingReturns(n)

\* the events of the pointer, the keys and the toolbar without the wheel,
\* with the click and with the delete button
ToolEvent ==
  \/ MouseDownOnCanvas
  \/ MouseDownOnElement
  \/ MouseDownOnOverlay
  \/ MouseMove
  \/ MouseUp
  \/ MouseLeave
  \/ KeyDown
  \/ KeyUp
  \/ SetMode
  \/ Click
  \/ DeleteSelected

ToolCallReturns(n) ==
  \/ CallReturns(n)
  \/ createTextNoteReturns(n)
  \/ deleteReturns(n)

\* ------------------------------------------------------ the specifications
CreateStep(p, inputs) ==
  \/ CallCreateTextNote(p, inputs)
  \/ createTextNote_insertCanvas(p)
  \/ createTextNote_insertText(p)
  \/ CallCreateDrawing(p, inputs)
  \/ createDrawing_insertCanvas(p)
  \/ createDrawing_insertDrawing(p)

UpdateStep(p, inputs) ==
  \/ CallUpdateTextNote(p, inputs)
  \/ updateTextNote_updateCanvas(p)
  \/ updateTextNote_updateText(p)
  \/ updateTextNote_fetch(p)
  \/ CallUpdateDrawing(p, inputs)
  \/ updateDrawing_updateCanvas(p)
  \/ updateDrawing_updateDrawing(p)
  \/ updateDrawing_fetch(p)

GetStep(p, inputs) ==
  \/ CallGetCanvasElement(p, inputs)
  \/ getCanvasElement_join(p)

ListStep(p, inputs) == CallGetCanvasElements(p, inputs)

DeleteStep(p, inputs) ==
  \/ CallDeleteCanvasElement(p, inputs)
  \/ deleteCanvasElement_selectData(p)
  \/ deleteCanvasElement_delete(p)

BulkStep(p, inputs) ==
  \/ CallBulkUpdateElements(p, inputs)
  \/ bulkUpdateElements_update(p)
  \/ bulkUpdateElements_commit(p)
  \/ bulkUpdateElements_selectCanvas(p)
  \/ bulkUpdateElements_selectText(p)
  \/ bulkUpdateElements_selectDrawings(p)

\* Spec: create, update, get and delete requests, interleaved statement by
\* statement
Next ==
  \/ Tick
  \/ \E p \in Procs :
       \/ CreateStep(p, BasicInputs)
       \/ UpdateStep(p, BasicInputs)
       \/ GetStep(p, BasicInputs)
       \/ DeleteStep(p, BasicInputs)
       \/ StorageFailure(p)
       \/ Return(p)

Spec == Init /\ [][Next]_vars

\* SpecCrud: the same requests with every input, one request at a time
NextCrud ==
  \/ Tick
  \/ \E p \in Procs :
       \/ CreateStep(p, AllInputs)
       \/ UpdateStep(p, AllInputs)
       \/ GetStep(p, AllInputs)
       \/ ListStep(p, AllInputs)
       \/ DeleteStep(p, AllInputs)
       \/ StorageFailure(p)
       \/ Return(p)

SpecCrud == Init /\ [][NextCrud]_vars

\* SpecBulk: create and bulk-update requests, one request at a time
NextBulk ==
  \/ Tick
  \/ \E p \in Procs :
       \/ CreateStep(p, BasicInputsOneAtATime)
       \/ BulkStep(p, BasicInputsOneAtATime)
       \/ StorageFailure(p)
       \/ Return(p)

SpecBulk == Init /\ [][NextBulk]_vars

\* SpecUpdates: create and update requests with two patches per kind,
\* interleaved statement by statement
NextUpdates ==
  \/ Tick
  \/ \E p \in Procs :
       \/ CreateStep(p, WriteInputs)
       \/ UpdateStep(p, WriteInputs)
       \/ StorageFailure(p)
       \/ Return(p)

SpecUpdates == Init /\ [][NextUpdates]_vars

\* SpecDelete: create, update, bulk-update and delete requests, interleaved
\* statement by statement, all within one reading of the clock (which rows
\* exist does not depend on the time)
NextDelete ==
  \E p \in Procs :
    \/ CreateStep(p, DeleteInputs)
    \/ UpdateStep(p, DeleteInputs)
    \/ BulkStep(p, DeleteInputs)
    \/ DeleteStep(p, DeleteInputs)
    \/ StorageFailure(p)
    \/ Return(p)

SpecDelete == Init /\ [][NextDelete]_vars

\* SpecMutate: create, update and bulk-update requests, one at a time
NextMutate ==
  \/ Tick
  \/ \E p \in Procs :
       \/ CreateStep(p, MutateInputs)
       \/ UpdateStep(p, MutateInputs)
       \/ BulkStep(p, MutateInputs)
       \/ StorageFailure(p)
       \/ Return(p)

SpecMutate == Init /\ [][NextMutate]_vars

\* SpecCreateGet: create requests, each followed at once by getCanvasElement
\* with the id it returned, one request at a time
NextCreateGet ==
  \/ Tick
  \/ \E p \in Procs :
       \/ CreateStep(p, AllInputs)
       \/ CallGetCanvasElementOfCreated(p)
       \/ getCanvasElement_join(p)
       \/ StorageFailure(p)
       \/ Return(p)

SpecCreateGet == Init /\ [][NextCreateGet]_vars

\* SpecList: create, update, bulk-update and list requests, one at a time
NextList ==
  \/ Tick
  \/ \E p \in Procs :
       \/ CreateStep(p, ListInputs)
       \/ UpdateStep(p, ListInputs)
       \/ BulkStep(p, ListInputs)
       \/ ListStep(p, ListInputs)
       \/ StorageFailure(p)
       \/ Return(p)

SpecList == Init /\ [][NextList]_vars

RefuseStep(p, inputs) ==
  \/ RefuseCreateTextNote(p, inputs)
  \/ RefuseCreateDrawing(p, inputs)
  \/ RefuseUpdateTextNote(p, inputs)
  \/ RefuseUpdateDrawing(p, inputs)

\* SpecValidate: create and update requests as they arrive, those the
\* schemas refuse among them, one request at a time
NextValidate ==
  \/ Tick
  \/ \E p \in Procs :
       \/ RefuseStep(p, ValidateInputs)
       \/ CreateStep(p, ValidateInputs)
       \/ UpdateStep(p, ValidateInputs)
       \/ StorageFailure(p)
       \/ Return(p)

SpecValidate == Init /\ [][NextValidate]_vars

\* SpecClient: the page on a board of two elements: the events of pointer,
\* keys, wheel and toolbar in any order, and its calls returning in any order
NextClient ==
  \/ Event
  \/ \E n \in 1..MaxCalls : CallReturns(n)

SpecClient == BoardInit /\ [][NextClient]_vars

\* SpecTools: the page on a board of one text note: gestures of up to
\* MaxGesture events of pointer, keys and toolbar, the click after a
\* pointer-up and the delete button among them, and its calls returning in
\* any order
NextTools ==
  \/ ToolEvent
  \/ \E n \in 1..MaxCalls : ToolCallReturns(n)

SpecTools == ToolsInit /\ [][NextTools]_vars

\* ------------------------------------------------------------- properties
Done(p, name) == pc[p] = "done" /\ op[p].name = name

StorageError(p) == res[p].status = "error" /\ res[p].name = "StorageError"

\* the payload row the type of a shared row asks for
PayloadRow(id) ==
  CASE canvas[id].type = "text_note" -> text[id]
    [] canvas[id].type = "drawing" -> draw[id]
    [] OTHER -> NoRow

\* C1: createTextNote and createDrawing are all-or-nothing: when the insert
\* of the payload row fails after the insert of the shared row, the create
\* fails, no shared row for the new id remains, and every shared row has
\* its payload row.
C1_CreateAllOrNothing ==
  \A p \in Procs :
    ( /\ pc[p] = "done"
      /\ op[p].name \in { "createTextNote", "createDrawing" }
      /\ StorageError(p)
      /\ res[p].at \in { "createTextNote_insertText", "createDrawing_insertDrawing" } )
    => /\ canvas[loc[p].id] = NoRow
       /\ \A i \in Ids : canvas[i] # NoRow => PayloadRow(i) # NoRow

\* C2: updateTextNote and updateDrawing are all-or-nothing: when the write
\* of the payload row fails after the write of the shared row, the element's
\* position, size, z_index and updated_at are what they were before the
\* update.
C2_UpdateAllOrNothing ==
  \A p \in Procs :
    ( /\ pc[p] = "done"
      /\ op[p].name \in { "updateTextNote", "updateDrawing" }
      /\ StorageError(p)
      /\ res[p].at \in { "updateTextNote_updateText", "updateDrawing_updateDrawing" } )
    => canvas[op[p].input.id] = loc[p].existing.canvas_elements

\* the part of C2 the transaction of updateDrawing carries
C2_UpdateDrawingAllOrNothing ==
  \A p \in Procs :
    ( /\ Done(p, "updateDrawing")
      /\ StorageError(p)
      /\ res[p].at = "updateDrawing_updateDrawing" )
    => canvas[op[p].input.id] = loc[p].existing.canvas_elements

Geometry(e) == [position |-> e.position, size |-> e.size, z_index |-> e.z_index]

Payload(e) ==
  IF e.type = "text_note"
  THEN [content |-> e.content, font_size |-> e.font_size,
        font_color |-> e.font_color, background_color |-> e.background_color]
  ELSE [strokes |-> e.strokes]

\* the element a running update request q saw at its existence check, and
\* the element its patch turns that into
ElementBefore(q) ==
  IF op[q].name = "updateTextNote"
  THEN TextNoteElement(op[q].input.id, loc[q].existing.canvas_elements,
                       loc[q].existing.text_notes)
  ELSE DrawingElement(op[q].input.id, loc[q].existing.canvas_elements,
                      loc[q].existing.drawings)

ElementAfter(q) ==
  IF op[q].name = "updateTextNote"
  THEN TextNoteElement(op[q].input.id,
                       ApplyCanvasUpdates(loc[q].existing.canvas_elements, op[q].input, loc[q].ts),
                       ApplyTextUpdates(loc[q].existing.text_notes, op[q].input))
  ELSE DrawingElement(op[q].input.id,
                      ApplyCanvasUpdates(loc[q].existing.canvas_elements, op[q].input, loc[q].ts),
                      [strokes |-> op[q].input.strokes])

Updating(q) ==
  pc[q] \in { "updateTextNote_updateCanvas", "updateTextNote_updateText",
              "updateTextNote_fetch", "updateDrawing_updateCanvas",
              "updateDrawing_updateDrawing", "updateDrawing_fetch" }

\* element e mixes the two sides of update q: the geometry of one with the
\* payload of the other
Torn(e, q) ==
  /\ Geometry(ElementBefore(q)) # Geometry(ElementAfter(q))
  /\ Payload(ElementBefore(q)) # Payload(ElementAfter(q))
  /\ \/ Geometry(e) = Geometry(ElementAfter(q)) /\ Payload(e) = Payload(ElementBefore(q))
     \/ Geometry(e) = Geometry(ElementBefore(q)) /\ Payload(e) = Payload(ElementAfter(q))

\* C3: a get that runs while an update changes the geometry and the payload
\* of the same element returns the element as it was before the update or as
\* it is after it, never the geometry of one with the payload of the other.
C3_NoTornRead ==
  \A p, q \in Procs :
    ( /\ Done(p, "getCanvasElement")
      /\ res[p].status = "ok"
      /\ Updating(q)
      /\ op[q].input.id = op[p].input.id )
    => ~Torn(res[p].value, q)

\* the part of C3 the transaction of updateDrawing carries
C3_NoTornReadOfDrawing ==
  \A p, q \in Procs :
    ( /\ Done(p, "getCanvasElement")
      /\ res[p].status = "ok"
      /\ Updating(q)
      /\ op[q].name = "updateDrawing"
      /\ op[q].input.id = op[p].input.id )
    => ~Torn(res[p].value, q)

\* C4: the snapshot deleteCanvasElement returns for an element it read whole
\* is the element, shared and payload values, as it was at the instant its
\* row was removed, whatever updates ran in between.
C4_SnapshotIsWhatWasRemoved ==
  \A p \in Procs :
    ( /\ Done(p, "deleteCanvasElement")
      /\ res[p].status = "ok"
      /\ loc[p].specificData # EmptyObject
      /\ loc[p].removed.canvas_elements # NoRow )
    => res[p].value =
         BaseElement(op[p].input.id, loc[p].removed.canvas_elements)
           @@ SpecificData(loc[p].removed.canvas_elements.type,
                           loc[p].removed.text_notes, loc[p].removed.drawings)

\* C5: of the deleteCanvasElement calls for one id at most one returns a
\* snapshot, and a call made when the id has no shared row fails with
\* "not found" and removes nothing.
C5_AtMostOneSnapshot ==
  /\ \A i \in Ids : snapshots[i] <= 1
  /\ \A p \in Procs :
       (Done(p, "deleteCanvasElement") /\ ~Has(loc[p], "element"))
         => /\ res[p] = Err("Error", "Canvas element with id not found", op[p].input.id)
            /\ canvas[op[p].input.id] = NoRow

\* ---------------------------------------------- properties of bulk update
Batch(p) == op[p].input.updates

\* the ids of the batch that had no shared row when the request was called
MissingIds(p) == { i \in ElementIds(Batch(p)) : loc[p].before.canvas[i] = NoRow }

\* the ids of the batch that named a whole element when the request was called
WholeBefore(p, i) ==
  /\ loc[p].before.canvas[i] # NoRow
  /\ \/ loc[p].before.canvas[i].type = "text_note" /\ loc[p].before.text[i] # NoRow
     \/ loc[p].before.canvas[i].type = "drawing" /\ loc[p].before.draw[i] # NoRow

\* the entries of the batch for id i that give the field
Giving(p, i, field) ==
  { j \in 1..Len(Batch(p)) : Batch(p)[j].id = i /\ Has(Batch(p)[j], field) }

Last(S) == CHOOSE j \in S : \A k \in S : k <= j

\* the element id i names in the tables as they stand
StoredElement(i) ==
  IF canvas[i].type = "text_note"
  THEN TextNoteElement(i, canvas[i], text[i])
  ELSE DrawingElement(i, canvas[i], draw[i])

\* C6: when an update statement of bulkUpdateElements fails, nothing the
\* batch wrote is kept: every element the batch names has the position,
\* z_index and updated_at it had before the call.
C6_BulkAllOrNothing ==
  \A p \in Procs :
    ( /\ Done(p, "bulkUpdateElements")
      /\ StorageError(p) )
    => \A i \in ElementIds(Batch(p)) : canvas[i] = loc[p].before.canvas[i]

\* a batch failed at a statement after an earlier statement of it had
\* written a new position or z_index to an existing row
C6_Witness ==
  \E p \in Procs :
    /\ Done(p, "bulkUpdateElements")
    /\ StorageError(p)
    /\ \E j \in 1..(loc[p].i - 1) :
         /\ RunsUpdate(Batch(p)[j])
         /\ canvas[Batch(p)[j].id] # NoRow
         /\ ApplyBulkUpdate(canvas[Batch(p)[j].id], Batch(p)[j], canvas[Batch(p)[j].id].updated_at)
              # canvas[Batch(p)[j].id]

\* C7: bulkUpdateElements with a batch that names an id without a shared
\* row fails with an error that identifies that id.
C7_MissingIdFails ==
  \A p \in Procs :
    ( /\ Done(p, "bulkUpdateElements")
      /\ ~StorageError(p)
      /\ MissingIds(p) # {} )
    => /\ res[p].status = "error"
       /\ res[p].id \in MissingIds(p)

\* C8: for a batch entry that names an existing id and gives neither
\* position nor z_index, bulkUpdateElements still sets the element's
\* updated_at to the time of the request.
C8_NoFieldEntryRefreshesUpdatedAt ==
  \A p \in Procs :
    ( /\ Done(p, "bulkUpdateElements")
      /\ res[p].status = "ok" )
    => \A j \in 1..Len(Batch(p)) :
         ( /\ ~RunsUpdate(Batch(p)[j])
           /\ canvas[Batch(p)[j].id] # NoRow )
         => canvas[Batch(p)[j].id].updated_at >= loc[p].start

\* C9: for a batch whose ids all name whole elements, bulkUpdateElements
\* returns exactly one element per id named, of that id's kind, equal to the
\* element as stored after the batch: the position and z_index the batch
\* wrote (the last entry giving each) and the size, content, style and
\* strokes it had; an empty batch returns the empty list and writes nothing.
C9_BulkReturnsStoredElements ==
  \A p \in Procs :
    ( /\ Done(p, "bulkUpdateElements")
      /\ res[p].status = "ok"
      /\ \A i \in ElementIds(Batch(p)) : WholeBefore(p, i) )
    => /\ Len(res[p].value) = Cardinality(ElementIds(Batch(p)))
       /\ \A i \in ElementIds(Batch(p)) :
            \E n \in 1..Len(res[p].value) :
              LET e == res[p].value[n]
                  b == loc[p].before
              IN  /\ e.id = i
                  /\ e = StoredElement(i)
                  /\ e.type = b.canvas[i].type
                  /\ e.position =
                       IF Giving(p, i, "position") = {}
                       THEN [x |-> b.canvas[i].position_x, y |-> b.canvas[i].position_y]
                       ELSE [x |-> Numeric6(Batch(p)[Last(Giving(p, i, "position"))].position.x),
                             y |-> Numeric6(Batch(p)[Last(Giving(p, i, "position"))].position.y)]
                  /\ e.z_index =
                       IF Giving(p, i, "z_index") = {}
                       THEN b.canvas[i].z_index
                       ELSE Batch(p)[Last(Giving(p, i, "z_index"))].z_index
                  /\ e.size = [width |-> b.canvas[i].width, height |-> b.canvas[i].height]
                  /\ Payload(e) = IF e.type = "text_note"
                                  THEN TextData(b.text[i]) ELSE DrawingData(b.draw[i])
       /\ Len(Batch(p)) = 0 => (res[p].value = << >> /\ Tables = loc[p].before)

\* a batch that moved a text note and re-layered a drawing has returned
C9_Witness ==
  \E p \in Procs :
    /\ Done(p, "bulkUpdateElements")
    /\ res[p].status = "ok"
    /\ Len(res[p].value) = 2
    /\ \E i, k \in ElementIds(Batch(p)) :
         /\ WholeBefore(p, i) /\ WholeBefore(p, k)
         /\ canvas[i].type = "text_note" /\ canvas[k].type = "drawing"
         /\ Giving(p, i, "position") # {} /\ Giving(p, k, "z_index") # {}
         /\ canvas[i].position_x # loc[p].before.canvas[i].position_x
         /\ canvas[k].z_index # loc[p].before.canvas[k].z_index

\* row r is row b in everything but position, z_index and updated_at
SameButPlace(r, b) ==
  IF b = NoRow \/ r = NoRow THEN r = b
  ELSE [r EXCEPT !.position_x = b.position_x, !.position_y = b.position_y,
                 !.z_index = b.z_index, !.updated_at = b.updated_at] = b

BulkRunning(p) ==
  /\ pc[p] # "idle"
  /\ op[p].name = "bulkUpdateElements"

\* C10: bulkUpdateElements changes only position, z_index and updated_at of
\* the elements its batch names: their size, created_at, content, font
\* settings and strokes, and every field of the elements not named, stay;
\* an element for which no entry gives z_index keeps its z_index, and one
\* for which no entry gives position keeps its position.
C10_BulkFrame ==
  \A p \in Procs :
    BulkRunning(p) =>
      LET b == loc[p].before
      IN  /\ text = b.text
          /\ draw = b.draw
          /\ \A i \in Ids :
               /\ SameButPlace(canvas[i], b.canvas[i])
               /\ i \notin ElementIds(Batch(p)) => canvas[i] = b.canvas[i]
               /\ (canvas[i] # NoRow /\ Giving(p, i, "z_index") = {})
                    => canvas[i].z_index = b.canvas[i].z_index
               /\ (canvas[i] # NoRow /\ Giving(p, i, "position") = {})
                    => /\ canvas[i].position_x = b.canvas[i].position_x
                       /\ canvas[i].position_y = b.canvas[i].position_y

\* a batch giving one element only a position and another only a z_index
\* has been committed, and both rows changed
C10_Witness ==
  \E p \in Procs :
    /\ Done(p, "bulkUpdateElements")
    /\ \E i, k \in ElementIds(Batch(p)) :
         /\ i # k
         /\ Giving(p, i, "position") # {} /\ Giving(p, i, "z_index") = {}
         /\ Giving(p, k, "z_index") # {} /\ Giving(p, k, "position") = {}
         /\ canvas[i] # NoRow /\ canvas[i] # loc[p].before.canvas[i]
         /\ canvas[k] # NoRow /\ canvas[k] # loc[p].before.canvas[k]

\* ------------------------------------------- properties of reads and errors
\* the errors that say the id names nothing
NotFoundMessages ==
  { "Canvas element with id not found", "Text note with ID not found",
    "Drawing with ID not found" }

NotFound(r) == r.status = "error" /\ r.name = "Error" /\ r.msg \in NotFoundMessages

\* the shared row of id i is there and the payload row its type asks for is not
Orphan(i) == canvas[i] # NoRow /\ PayloadRow(i) = NoRow

\* C11: requests one at a time: getCanvasElement(id) returns the stored
\* element when the shared and the payload row exist, fails with the "not
\* found" error when id has no shared row, and fails with an error for that
\* id that is not the "not found" error when the shared row exists and its
\* payload row is missing or its type is unknown.
C11_GetCanvasElementResults ==
  \A p \in Procs :
    Done(p, "getCanvasElement") =>
      LET id == op[p].input.id
      IN  /\ (canvas[id] # NoRow /\ ~Orphan(id)) => res[p] = Ok(StoredElement(id))
          /\ canvas[id] = NoRow
               => res[p] = Err("Error", "Canvas element with id not found", id)
          /\ Orphan(id) => /\ res[p].status = "error"
                           /\ ~NotFound(res[p])
                           /\ res[p].id = id

\* getCanvasElement has answered for an id whose payload row is missing
C11_Witness ==
  \E p \in Procs :
    /\ Done(p, "getCanvasElement")
    /\ Orphan(op[p].input.id)
    /\ res[p].status = "error"

\* C12: when getCanvasElement, updateTextNote, updateDrawing or
\* deleteCanvasElement fails with a "not found" error, the id it was given
\* has no shared row.
C12_NotFoundMeansNoSharedRow ==
  \A p \in Procs :
    ( /\ pc[p] = "done"
      /\ op[p].name \in { "getCanvasElement", "updateTextNote", "updateDrawing",
                          "deleteCanvasElement" }
      /\ NotFound(res[p]) )
    => canvas[op[p].input.id] = NoRow

\* element e carries nulls where its payload should be, or no payload at all
LacksPayload(e) ==
  \/ ~Has(e, "content") /\ ~Has(e, "strokes")
  \/ Has(e, "content") /\ e.content = NullString
  \/ Has(e, "strokes") /\ e.strokes = NullStrokes

\* the elements a finished request returned
Returned(p) ==
  CASE op[p].name = "getCanvasElements" ->
         { res[p].value.elements[n] : n \in 1..Len(res[p].value.elements) }
    [] op[p].name = "bulkUpdateElements" ->
         { res[p].value[n] : n \in 1..Len(res[p].value) }
    [] OTHER -> { res[p].value }

\* C13: getCanvasElements, deleteCanvasElement and bulkUpdateElements never
\* return an element whose shared row has no payload row: no element they
\* return lacks its payload fields or carries nulls in them.
C13_NoElementWithoutPayload ==
  \A p \in Procs :
    ( /\ pc[p] = "done"
      /\ op[p].name \in { "getCanvasElements", "deleteCanvasElement",
                          "bulkUpdateElements" }
      /\ res[p].status = "ok" )
    => \A e \in Returned(p) : ~LacksPayload(e)

\* the part of C13 bulkUpdateElements carries
C13_BulkSurfacesMissingPayload ==
  \A p \in Procs :
    (Done(p, "bulkUpdateElements") /\ res[p].status = "ok")
      => \A e \in Returned(p) : ~LacksPayload(e) /\ ~Orphan(e.id)

\* ------------------------------------------------------ properties of update
UpdateNames == { "updateTextNote", "updateDrawing" }

\* C14: updateTextNote or updateDrawing with an id that has no shared row
\* fails at once with the "not found" error for that id and leaves every
\* row of every table as it was.
C14_UpdateOfMissingIdWritesNothing ==
  [][\A p \in Procs :
       ( /\ pc[p] = "idle"
         /\ pc'[p] # "idle"
         /\ op'[p].name \in UpdateNames
         /\ canvas[op'[p].input.id] = NoRow )
       => /\ pc'[p] = "done"
          /\ NotFound(res'[p])
          /\ res'[p].id = op'[p].input.id
          /\ Tables' = Tables]_vars

\* an update of an id without shared row has failed
C14_Witness ==
  \E p \in Procs :
    /\ pc[p] = "done"
    /\ op[p].name \in UpdateNames
    /\ canvas[op[p].input.id] = NoRow
    /\ NotFound(res[p])

\* C15: requests one at a time: a successful updateTextNote or
\* updateDrawing returns the stored element, in which every field the patch
\* names has the patch's value as the column keeps it, also when that value
\* is falsy (empty content, z_index 0, no strokes), and every field the patch
\* leaves out, created_at among them, has the value it had before.
C15_UpdateChangesPatchedFieldsOnly ==
  \A p \in Procs :
    ( /\ pc[p] = "done"
      /\ op[p].name \in UpdateNames
      /\ res[p].status = "ok" )
    => LET patch == op[p].input
           b == ElementBefore(p)
           e == res[p].value
       IN  /\ e = StoredElement(patch.id)
           /\ e.id = b.id /\ e.type = b.type /\ e.created_at = b.created_at
           /\ e.position = IF Has(patch, "position")
                           THEN [x |-> Numeric6(patch.position.x),
                                 y |-> Numeric6(patch.position.y)]
                           ELSE b.position
           /\ e.size = IF Has(patch, "size")
                       THEN [width |-> Numeric6(patch.size.width),
                             height |-> Numeric6(patch.size.height)]
                       ELSE b.size
           /\ e.z_index = IF Has(patch, "z_index") THEN patch.z_index ELSE b.z_index
           /\ e.type = "text_note" =>
                /\ e.content = IF Has(patch, "content") THEN patch.content ELSE b.content
                /\ e.font_size = IF Has(patch, "font_size")
                                 THEN Numeric2(patch.font_size) ELSE b.font_size
                /\ e.font_color = IF Has(patch, "font_color")
                                  THEN patch.font_color ELSE b.font_color
                /\ e.background_color = IF Has(patch, "background_color")
                                        THEN patch.background_color
                                        ELSE b.background_color
           /\ e.type = "drawing" =>
                e.strokes = IF Has(patch, "strokes") THEN patch.strokes ELSE b.strokes

\* an update whose patch gives z_index 0 and an empty payload, and nothing
\* else, has succeeded on an element that had neither
C15_Witness ==
  \E p \in Procs :
    /\ pc[p] = "done"
    /\ op[p].name \in UpdateNames
    /\ res[p].status = "ok"
    /\ ~Has(op[p].input, "position")
    /\ Has(op[p].input, "z_index") /\ op[p].input.z_index = 0
    /\ ElementBefore(p).z_index # 0
    /\ \/ Has(op[p].input, "content") /\ op[p].input.content = ""
          /\ ElementBefore(p).content # ""
       \/ Has(op[p].input, "strokes") /\ op[p].input.strokes = << >>
          /\ ElementBefore(p).strokes # << >>

\* C16: requests one at a time: after a successful updateTextNote or
\* updateDrawing, whatever its patch names, the element's updated_at is
\* greater than it was before the update.
C16_UpdateAdvancesUpdatedAt ==
  \A p \in Procs :
    ( /\ pc[p] = "done"
      /\ op[p].name \in UpdateNames
      /\ res[p].status = "ok" )
    => /\ res[p].value.updated_at > ElementBefore(p).updated_at
       /\ canvas[op[p].input.id].updated_at > ElementBefore(p).updated_at

\* what C16 asks of interleaved requests: no statement lowers the updated_at
\* of a row
C16_UpdatedAtNeverDecreases ==
  [][\A i \in Ids :
       (canvas[i] # NoRow /\ canvas'[i] # NoRow)
         => canvas'[i].updated_at >= canvas[i].updated_at]_vars

\* C17: requests one at a time: through every sequence of create, update
\* and bulk-update requests each element has updated_at >= created_at (no
\* step leads to a row for which it fails; the tables start empty), and no
\* step changes the created_at of a row.
C17_CreatedAtFixedAndNotAfterUpdatedAt ==
  [][\A i \in Ids :
       /\ canvas'[i] # NoRow => canvas'[i].updated_at >= canvas'[i].created_at
       /\ (canvas[i] # NoRow /\ canvas'[i] # NoRow)
            => canvas'[i].created_at = canvas[i].created_at]_vars

\* an element created before the clock advanced has been written by an
\* update and another by a bulk update after it did
C17_Witness ==
  /\ \E i \in Ids : /\ canvas[i] # NoRow
                     /\ canvas[i].updated_at > canvas[i].created_at
                     /\ canvas[i].position_x = Numeric6(PosB.x)
  /\ \E i \in Ids : /\ canvas[i] # NoRow
                     /\ canvas[i].updated_at > canvas[i].created_at
                     /\ canvas[i].position_x = Numeric6(PosC.x)

\* ------------------------------------------------------ properties of delete
\* C18: the delete statement of a deleteCanvasElement(X) that succeeds
\* leaves no shared and no payload row for X and every other row as it was,
\* and a getCanvasElement(X) called after it fails with the "not found"
\* error.
C18_DeleteRemovesElementOnly ==
  [][\A p \in Procs :
       /\ ( /\ pc[p] = "deleteCanvasElement_delete"
            /\ pc'[p] = "done"
            /\ res'[p].status = "ok" )
          => /\ Tables' = [canvas |-> [canvas EXCEPT ![op[p].input.id] = NoRow],
                           text |-> [text EXCEPT ![op[p].input.id] = NoRow],
                           draw |-> [draw EXCEPT ![op[p].input.id] = NoRow]]
             /\ canvas'[op[p].input.id] = NoRow
             /\ text'[op[p].input.id] = NoRow
             /\ draw'[op[p].input.id] = NoRow
       /\ ( /\ pc[p] = "idle"
            /\ pc'[p] # "idle"
            /\ op'[p].name = "getCanvasElement"
            /\ snapshots[op'[p].input.id] > 0 )
          => /\ pc'[p] = "done"
             /\ res'[p] = Err("Error", "Canvas element with id not found",
                              op'[p].input.id)]_vars

\* getCanvasElement has failed for an element that was deleted with its
\* payload row while another element was there
C18_Witness ==
  \E p \in Procs :
    /\ Done(p, "getCanvasElement")
    /\ snapshots[op[p].input.id] > 0
    /\ NotFound(res[p])
    /\ \E i \in Ids : canvas[i] # NoRow /\ PayloadRow(i) # NoRow

\* C19: once deleteCanvasElement(X) has succeeded no shared row and no
\* payload row with id X exists again, whatever create, update and bulk
\* update requests run afterwards or were running when X was deleted.
C19_NoResurrection ==
  \A i \in Ids :
    snapshots[i] > 0 => canvas[i] = NoRow /\ text[i] = NoRow /\ draw[i] = NoRow

\* X has been deleted while an update of X that had passed its existence
\* check was running
C19_Witness ==
  \E q \in Procs :
    /\ pc[q] \in { "updateTextNote_updateText", "updateTextNote_fetch",
                   "updateDrawing_updateDrawing", "updateDrawing_fetch" }
    /\ snapshots[op[q].input.id] > 0

\* ------------------------------------------- properties of concurrent updates
\* update request p has run all its writes and has not failed
WritesDone(p) ==
  \/ pc[p] = "updateTextNote_fetch"
  \/ pc[p] = "done" /\ op[p].name \in UpdateNames /\ res[p].status = "ok"

\* everything the patch of update request w names is what the rows hold
WholeInPlace(w) ==
  LET id == op[w].input.id
  IN  /\ canvas[id] = ApplyCanvasUpdates(canvas[id], op[w].input, loc[w].ts)
      /\ op[w].name = "updateTextNote" => text[id] = ApplyTextUpdates(text[id], op[w].input)
      /\ (op[w].name = "updateDrawing" /\ Has(op[w].input, "strokes"))
           => draw[id] = [strokes |-> op[w].input.strokes]

\* C20: when two updates of one id have both run all their writes, the
\* stored element is what running them one after the other gives: the whole
\* patch of one of them is in place, never the geometry of one with the
\* payload of the other.
C20_ConcurrentUpdatesSerialize ==
  \A p, q \in Procs :
    ( /\ p # q
      /\ WritesDone(p) /\ WritesDone(q)
      /\ op[p].input.id = op[q].input.id )
    => WholeInPlace(p) \/ WholeInPlace(q)

\* the part of C20 the transaction of updateDrawing carries: its commit
\* turns the stored element into that element with the whole patch applied
C20_UpdateDrawingIsAtomic ==
  [][\A q \in Procs :
       ( /\ pc[q] = "updateDrawing_fetch"
         /\ pc'[q] = "done"
         /\ res'[q].status = "ok" )
       => LET id == op[q].input.id
          IN  /\ canvas'[id] = ApplyCanvasUpdates(canvas[id], op[q].input, loc[q].ts)
              /\ draw'[id] = IF Has(op[q].input, "strokes")
                             THEN [strokes |-> op[q].input.strokes] ELSE draw[id]]_vars


\* C21: getCanvasElement(id), called right after createTextNote or
\* createDrawing returned the element with that id, succeeds and returns the
\* type, position, size, z_index and payload fields (content, font size and
\* colours, or strokes) that the create returned.
C21_GetAfterCreateReturnsCreated ==
  \A p \in Procs :
    (Done(p, "getCanvasElement") /\ Has(op[p], "created")) =>
      /\ res[p].status = "ok"
      /\ res[p].value.type = op[p].created.type
      /\ Geometry(res[p].value) = Geometry(op[p].created)
      /\ Payload(res[p].value) = Payload(op[p].created)

\* getCanvasElement has answered right after the create of a text note whose
\* font size the column rounded
C21_Witness ==
  \E p \in Procs :
    /\ Done(p, "getCanvasElement")
    /\ Has(op[p], "created")
    /\ res[p].status = "ok"
    /\ res[p].value.type = "text_note"
    /\ res[p].value.font_size = 18 * U + 100000

\* the ids of the elements of a list, in the order of the list
ListedIds(elements) == [n \in 1..Len(elements) |-> elements[n].id]

\* C22: requests one at a time: getCanvasElements without a viewport
\* succeeds and returns every element that has a shared row exactly once,
\* text notes and drawings alike, each with its stored type and z_index, in
\* ascending order of z_index, and total_count is the length of the list.
C22_ListReturnsAllByZIndex ==
  \A p \in Procs :
    (Done(p, "getCanvasElements") /\ ~Has(op[p].input, "viewport")) =>
      /\ res[p].status = "ok"
      /\ LET elements == res[p].value.elements
             existing == { i \in Ids : canvas[i] # NoRow }
         IN  /\ { elements[n].id : n \in 1..Len(elements) } = existing
             /\ Len(elements) = Cardinality(existing)
             /\ \A n \in 1..Len(elements) :
                  /\ elements[n].type = canvas[elements[n].id].type
                  /\ elements[n].z_index = canvas[elements[n].id].z_index
             /\ \A m, n \in 1..Len(elements) :
                  m < n => elements[m].z_index <= elements[n].z_index
             /\ res[p].value.total_count = Len(elements)

\* a list without viewport has returned a text note and a drawing, the one
\* created later first because its z_index is lower
C22_Witness ==
  \E p \in Procs :
    /\ Done(p, "getCanvasElements")
    /\ ~Has(op[p].input, "viewport")
    /\ res[p].status = "ok"
    /\ ListedIds(res[p].value.elements) = << 2, 1 >>
    /\ res[p].value.elements[1].type # res[p].value.elements[2].type
    /\ res[p].value.elements[1].z_index < res[p].value.elements[2].z_index

\* C23: requests one at a time: in the list getCanvasElements returns,
\* elements with the same z_index stand in the order they were created in
\* (ids are handed out in the order of creation).
C23_TiesInInsertionOrder ==
  \A p \in Procs :
    (Done(p, "getCanvasElements") /\ res[p].status = "ok") =>
      LET elements == res[p].value.elements
      IN  \A m, n \in 1..Len(elements) :
            (m < n /\ elements[m].z_index = elements[n].z_index)
              => elements[m].id < elements[n].id

BadSize(size) == size.width <= 0 \/ size.height <= 0

\* some stroke has a width that is not positive or a point with a pressure
\* outside [0, 1]
BadStrokes(strokes) ==
  \E n \in 1..Len(strokes) :
    \/ Has(strokes[n], "width") /\ strokes[n].width <= 0
    \/ \E m \in 1..Len(strokes[n].points) :
         /\ Has(strokes[n].points[m], "pressure")
         /\ \/ strokes[n].points[m].pressure < 0
            \/ strokes[n].points[m].pressure > 1 * U

\* input, as it arrives, breaks one of the constraints: size, font size,
\* stroke width, pressure, whole z_index
Violates(input) ==
  \/ Has(input, "size") /\ BadSize(input.size)
  \/ Has(input, "font_size") /\ input.font_size <= 0
  \/ Has(input, "strokes") /\ BadStrokes(input.strokes)
  \/ Has(input, "z_index") /\ input.z_index % U # 0

\* input, as the handler is called with it, breaks one of the constraints
\* (its z_index is a whole number by then)
ViolatesParsed(input) ==
  \/ Has(input, "size") /\ BadSize(input.size)
  \/ Has(input, "font_size") /\ input.font_size <= 0
  \/ Has(input, "strokes") /\ BadStrokes(input.strokes)

Refused(p) == pc[p] = "done" /\ res[p] = BadRequest

\* C25: a createTextNote, createDrawing, updateTextNote or updateDrawing
\* request whose input has a size with width or height <= 0, a font size
\* <= 0, a stroke width <= 0, a pressure outside [0, 1] or a z_index that is
\* not whole is refused by the procedure's schema; the refusal is the
\* request's only step and leaves the tables unchanged; and no input the
\* handler is called with breaks one of these constraints.
C25_InvalidInputRefusedBeforeWrite ==
  [][/\ \A input \in RawInputs.createTextNote :
          Violates(input) => ~createTextNoteInputSchema(input)
     /\ \A input \in RawInputs.createDrawing :
          Violates(input) => ~createDrawingInputSchema(input)
     /\ \A input \in RawInputs.updateTextNote :
          Violates(input) => ~updateTextNoteInputSchema(input)
     /\ \A input \in RawInputs.updateDrawing :
          Violates(input) => ~updateDrawingInputSchema(input)
     /\ \A p \in Procs :
          (pc[p] = "idle" /\ pc'[p] # "idle") =>
            IF res'[p] = BadRequest
            THEN /\ pc'[p] = "done"
                 /\ UNCHANGED << canvas, text, draw, nextId, txCanvas, txDraw >>
            ELSE ~ViolatesParsed(op'[p].input)]_vars

\* an update whose z_index is not whole has been refused while the element
\* it names is stored
C25_Witness ==
  \E p \in Procs :
    /\ Refused(p)
    /\ op[p].name \in UpdateNames
    /\ Violates(op[p].input)
    /\ Has(op[p].input, "z_index")
    /\ op[p].input.z_index % U # 0
    /\ canvas[op[p].input.id] # NoRow
    /\ PayloadRow(op[p].input.id) # NoRow

\* ------------------------------------------------------------------ C26
\* C26: in every state the page reaches, at most one of the pan
\* (isPanning), the drag of an element (isDragging) and the drawing of a
\* stroke (isDrawing) is under way.
Active ==
  { name \in { "isPanning", "isDragging", "isDrawing" } :
      IF name = "isDrawing" THEN DrawingTool.isDrawing ELSE InfiniteCanvas[name] }

C26_AtMostOneInteraction == Cardinality(Active) <= 1

\* ------------------------------------------------------------------ C27
\* C27: a pointer move that arrives while no pan, no drag and no stroke is
\* under way changes nothing: the viewport, the position of every element
\* and the current stroke stay as they are, and no call is made.
C27_IdleMoveChangesNothing ==
  [][(MouseMove /\ Active = {}) =>
       /\ App'.viewport = App.viewport
       /\ App'.elements = App.elements
       /\ DrawingTool'.currentStroke = DrawingTool.currentStroke
       /\ trpc' = trpc]_vars

\* the pointer has just moved over a page that shows elements, in draw
\* mode, and nothing is under way
C27_Witness ==
  /\ Active = {}
  /\ events.last = "MouseMove"
  /\ Len(App.elements) > 0
  /\ App.mode = "draw"

\* ------------------------------------------------------------------ C28
\* C28: whatever events the page handles from its first state, where the
\* zoom is 1, the zoom of the viewport is at least 0.1 and at most 3.
C28_ZoomWithinRange ==
  /\ Milli \div 10 <= App.viewport.zoom
  /\ App.viewport.zoom <= 3 * Milli

\* a wheel step has just held the zoom at 0.1, during a pan, on a viewport
\* whose offset is no longer the first one
C28_Witness ==
  /\ events.last = "Wheel"
  /\ App.viewport.zoom = Milli \div 10
  /\ InfiniteCanvas.isPanning
  /\ App.viewport.x # 0

\* ------------------------------------------------------------------ C29
\* the step is a wheel event e that the page has handled
WheelAt(e) ==
  /\ events'.handled = events.handled + 1
  /\ events'.last = "Wheel"
  /\ App'.viewport = handleWheel(e)

Abs(v) == IF v < 0 THEN -v ELSE v

\* two values of a coordinate of the canvas point under the pointer, at
\* distance d from the old offset, differ by no more than the roundings of
\* the ratio of the zooms, of the product with it, and of the two divisions
\* by the zoom can add up to: a unit, and half a unit for every unit of d
\* and for the product, over the new zoom
WithinRounding(before, after, d, vp) ==
  2 * Abs(after - before) * vp.zoom <= 2 * vp.zoom + Abs(d) + Milli

\* C29 as the claim states it: after a wheel event at p, the canvas point
\* under p is the very point that was under p before.
C29_AnchorPointUnmoved ==
  [][\A point \in ClientPoints, deltaY \in WheelDeltas :
       LET e == point @@ [deltaY |-> deltaY]
       IN  WheelAt(e) => toCanvas(e, App'.viewport) = toCanvas(e, App.viewport)]_vars

\* C29, amended: after a wheel event at p, clamped or not, the canvas point
\* under p is the point that was under p before, up to the rounding of the
\* arithmetic.
C29_AnchorPointWithinRounding ==
  [][\A point \in ClientPoints, deltaY \in WheelDeltas :
       LET e == point @@ [deltaY |-> deltaY]
           before == toCanvas(e, App.viewport)
           after == toCanvas(e, App'.viewport)
       IN  WheelAt(e) =>
             /\ WithinRounding(before.x, after.x,
                               e.clientX - rect.left - App.viewport.x, App'.viewport)
             /\ WithinRounding(before.y, after.y,
                               e.clientY - rect.top - App.viewport.y, App'.viewport)]_vars

\* a wheel step, not the first event, has just held the zoom at 3 and left
\* the viewport at an offset that is not a whole number of pixels
C29_Witness ==
  /\ events.last = "Wheel"
  /\ events.handled >= 2
  /\ App.viewport.zoom = 3 * Milli
  /\ App.viewport.x < 0
  /\ App.viewport.x % Milli # 0

\* ------------------------------------------------------------------ C30
\* a point of the window, taken to the canvas and back
RoundTrip(point) ==
  toScreen(toCanvas(point, App.viewport), App.viewport)

\* C30 as the claim states it: a point of the window taken to the canvas
\* and back is the point itself, in every viewport.
C30_RoundTripExact ==
  \A point \in ClientPoints :
    /\ RoundTrip(point).x = point.clientX
    /\ RoundTrip(point).y = point.clientY

\* C30, amended: a point of the window taken to the canvas and back is the
\* point itself up to the rounding of the division and of the product: half
\* a unit of the canvas coordinate, scaled by the zoom, and half a unit of
\* the product.
C30_RoundTripWithinRounding ==
  \A point \in ClientPoints :
    /\ 2 * Abs(RoundTrip(point).x - point.clientX) * Milli <= App.viewport.zoom + Milli
    /\ 2 * Abs(RoundTrip(point).y - point.clientY) * Milli <= App.viewport.zoom + Milli

\* the viewport has been zoomed and moved, and a point of the window taken
\* to the canvas and back comes out beside itself
C30_Witness ==
  /\ App.viewport.zoom # Milli
  /\ App.viewport.x # 0
  /\ App.viewport.y # 0
  /\ \E point \in ClientPoints : RoundTrip(point).x # point.clientX


\* ------------------------------------------------------------------ C31
\* the step is the page handling one more event, of one of these names
Handled(names) ==
  /\ events'.handled = events.handled + 1
  /\ events'.last \in names

Presses == { "MouseDownOnCanvas", "MouseDownOnElement", "MouseDownOnOverlay" }

\* C31: a pointer-down that starts a pan captures the pointer position
\* less the offset of the viewport, and every pointer-move of the pan sets
\* the offset to the pointer position less the captured value, leaving the
\* zoom and the size of the viewport as they were.
C31_PanFollowsPointer ==
  [][/\ (Handled(Presses) /\ ~InfiniteCanvas.isPanning /\ InfiniteCanvas'.isPanning) =>
          \E point \in ClientPoints :
            InfiniteCanvas'.panStart = [x |-> point.clientX - App.viewport.x,
                                        y |-> point.clientY - App.viewport.y]
     /\ (Handled({ "MouseMove" }) /\ InfiniteCanvas.isPanning) =>
          \E point \in ClientPoints :
            App'.viewport =
              [App.viewport EXCEPT !.x = point.clientX - InfiniteCanvas.panStart.x,
                                   !.y = point.clientY - InfiniteCanvas.panStart.y]]_vars

\* a pan that began on a viewport zoomed and moved by the wheel has just
\* moved the viewport further
C31_Witness ==
  /\ events.last = "MouseMove"
  /\ InfiniteCanvas.isPanning
  /\ App.viewport.zoom # Milli
  /\ InfiniteCanvas.panStart.x % Milli # 0
  /\ App.viewport.x > 0

\* ------------------------------------------------------------------ C32
\* C32: the pointer-down on an element in select mode starts a drag and records the
\* canvas point under the pointer less the position of the element, and
\* every pointer-move of the drag asks for the element the position that is
\* the canvas point under the pointer, in the viewport of that moment, less
\* the recorded offset: the point of the element that was grabbed is asked
\* to stay under the pointer.
C32_DragKeepsGrabbedPoint ==
  [][/\ (Handled({ "MouseDownOnElement" }) /\ App.mode = "select") =>
          /\ InfiniteCanvas'.isDragging
          /\ \E point \in ClientPoints, n \in 1..Len(App.elements) :
               InfiniteCanvas'.dragElement =
                 [id |-> App.elements[n].id,
                  offset |-> [x |-> toCanvas(point, App.viewport).x
                                      - App.elements[n].position.x,
                              y |-> toCanvas(point, App.viewport).y
                                      - App.elements[n].position.y]]
     /\ ( /\ Handled({ "MouseMove" })
          /\ InfiniteCanvas.isDragging
          /\ Find(InfiniteCanvas.dragElement.id) # 0 ) =>
          \E point \in ClientPoints :
            /\ Len(trpc') > Len(trpc)
            /\ trpc'[Len(trpc')].name \in UpdateNames
            /\ trpc'[Len(trpc')].input =
                 [id |-> InfiniteCanvas.dragElement.id,
                  position |->
                    [x |-> toCanvas(point, App.viewport).x - InfiniteCanvas.dragElement.offset.x,
                     y |-> toCanvas(point, App.viewport).y - InfiniteCanvas.dragElement.offset.y]]]_vars

\* a move of a drag on a zoomed viewport has just asked for a position of
\* the element
C32_Witness ==
  /\ events.last = "MouseMove"
  /\ InfiniteCanvas.isDragging
  /\ App.viewport.zoom # Milli
  /\ App.viewport.x # 0
  /\ \E n \in 1..Len(trpc) :
       /\ trpc[n].name \in UpdateNames
       /\ trpc[n].input.id = InfiniteCanvas.dragElement.id

\* ------------------------------------------------------------------ C33
\* the createDrawing call a step has added
Created == trpc'[Len(trpc')]

C34_ShortStrokeDiscarded ==
  [][ ( /\ Handled({ "MouseUp", "MouseLeave" })
        /\ App.mode = "draw"
        /\ Len(DrawingTool.currentStroke) < 2 )
      => ( /\ trpc' = trpc
           /\ App'.elements = App.elements
           /\ ~DrawingTool'.isDrawing
           /\ DrawingTool'.currentStroke = << >> ) ]_vars

\* the third event of the page, after the draw mode was chosen and the
\* pointer pressed on the overlay, was the pointer-up: the stroke had the one
\* point of the press, the tool is reset, no call is pending and the page
\* still shows its two elements
C34_Witness ==
  /\ events.handled = 3
  /\ events.last = "MouseUp"
  /\ events.press.began = { "isDrawing" }
  /\ App.mode = "draw"
  /\ ~DrawingTool.isDrawing
  /\ DrawingTool.currentStroke = << >>
  /\ trpc = << >>
  /\ Len(App.elements) = 2

\* ------------------------------------------------------------------ C35
\* C35: when a call of createTextNote, createDrawing, updateTextNote,
\* updateDrawing or deleteCanvasElement ends and the server has stored
\* nothing of it, the page has applied the change itself: a create has put
\* an element with the position, size and z_index of its input at the end
\* of the elements, an update has put the position of its input into the
\* element of its id and left the rest, a delete has taken the element of
\* its id out of the elements and cleared the selection.
AppliedLocally(call) ==
  LET before == App.elements
      after == App'.elements
  IN  CASE call.name \in { "createTextNote", "createDrawing" } ->
             /\ Len(after) = Len(before) + 1
             /\ SubSeq(after, 1, Len(before)) = before
             /\ after[Len(after)].type =
                  (IF call.name = "createTextNote" THEN "text_note" ELSE "drawing")
             /\ after[Len(after)].position = call.input.position
             /\ after[Len(after)].size = call.input.size
             /\ after[Len(after)].z_index = call.input.z_index
        [] call.name \in { "updateTextNote", "updateDrawing" } ->
             /\ Len(after) = Len(before)
             /\ \A m \in 1..Len(before) :
                  after[m] = IF before[m].id = call.input.id
                             THEN [before[m] EXCEPT !.position = call.input.position]
                             ELSE before[m]
        [] call.name = "deleteCanvasElement" ->
             /\ \A m \in 1..Len(after) : after[m].id # call.input.id
             /\ \E kept \in SUBSET (1..Len(before)) :
                  /\ kept = { m \in 1..Len(before) : before[m].id # call.input.id }
                  /\ Len(after) = Cardinality(kept)
                  /\ \A m \in 1..Len(after) : \E k \in kept :
                       /\ after[m] = before[k]
                       /\ Cardinality({ j \in kept : j < k }) = m - 1
             /\ App'.selectedElementId = nullId
        [] OTHER -> TRUE

C35_FailedCallAppliedLocally ==
  [][ \A n \in 1..Len(trpc) :
        ( /\ trpc' = Without(n)
          /\ events' = events
          /\ UNCHANGED << canvas, text, draw, nextId >> )
        => AppliedLocally(trpc[n]) ]_vars

\* the page shows a note it made itself, of the size handleCanvasClick
\* gives a new note, after a createTextNote call that stored nothing: the
\* server has given out no id beyond that of the first note
C35_Witness ==
  /\ nextId = 1
  /\ trpc = << >>
  /\ \E m \in 1..Len(App.elements) :
       /\ App.elements[m].id < 0
       /\ App.elements[m].type = "text_note"
       /\ App.elements[m].size = [width |-> 200 * Milli, height |-> 100 * Milli]

\* ------------------------------------------------------------------ C36
\* C36: a pointer-up or pointer-leave of the drawing tool that comes while
\* the createDrawing call of a stroke is still in flight issues no second
\* createDrawing for the points of that stroke: one gesture, one drawing.
C36_OneDrawingPerStroke ==
  [][ Handled({ "MouseUp", "MouseLeave" })
      => \A n \in 1..Len(trpc) :
           trpc[n].name = "createDrawing" =>
             ~( /\ Len(trpc') = Len(trpc) + 1
                /\ Created.name = "createDrawing"
                /\ Created.input.strokes = trpc[n].input.strokes ) ]_vars

\* ------------------------------------------------------------------ C37
\* C37: in text mode, the click that follows the pointer-up of a pan made
\* with the left button (the press, in text mode, began the pan, and the pan
\* moved the viewport) asks for no text note: the click adds no call.
C37_PanClickCreatesNoNote ==
  [][ ( /\ Handled({ "Click" })
        /\ App.mode = "text"
        /\ events.press.mode = "text"
        /\ events.press.button = 0
        /\ "isPanning" \in events.press.began
        /\ App.viewport # InitialViewport )
      => trpc' = trpc ]_vars

\* ------------------------------------------------------------------ C38
\* C38: when a drag has ended and no update call is in flight any more, the
\* element the drag moved has, in the elements of the page, the position the
\* last pointer move of the drag asked for, in whatever order the answers
\* of the update calls came.
C38_DragEndsAtLastRequest ==
  ( /\ events.last = "MouseUp"
    /\ events.asked # NoAsk
    /\ ~InfiniteCanvas.isDragging
    /\ \A n \in 1..Len(trpc) : trpc[n].name = "getCanvasElements"
    /\ Find(events.asked.id) # 0 )
  => App.elements[Find(events.asked.id)].position = events.asked.position

\* ------------------------------------------------------------------ C39
\* C39: for the viewport the page has, every stored element whose position,
\* times the zoom plus the offset, is a screen point within the width and the
\* height of the viewport is among the elements getCanvasElements lists for
\* that viewport.
AnchorOnScreen(i, vp) ==
  LET anchor == toScreen([x |-> FromServer(canvas[i].position_x),
                          y |-> FromServer(canvas[i].position_y)], vp)
  IN  /\ 0 <= anchor.x /\ anchor.x <= vp.width
      /\ 0 <= anchor.y /\ anchor.y <= vp.height

C39_ElementsOnScreenAreLoaded ==
  \A i \in Ids :
    (canvas[i] # NoRow /\ AnchorOnScreen(i, App.viewport)) => i \in InViewportIds(App.viewport)

\* ------------------------------------------------------------------ C40
\* the element a finished update returned is whole: the fields of the shared
\* row and the fields of its payload
WholeElement(e) ==
  /\ \A f \in { "id", "type", "position", "size", "z_index", "created_at", "updated_at" } :
       Has(e, f)
  /\ ~LacksPayload(e)

\* C40: an updateTextNote or updateDrawing that runs while the element of
\* its id is deleted, and that storage does not fail, ends in one of two
\* ways: it returns the whole element, or it fails with the "not found"
\* error.
C40_UpdateRacingDeleteEndsCleanly ==
  \A p \in Procs :
    (pc[p] = "done" /\ op[p].name \in UpdateNames /\ ~StorageError(p))
    => \/ res[p].status = "ok" /\ WholeElement(res[p].value)
       \/ NotFound(res[p])
====
